---- MODULE Spec2Model ----
(***************************************************************************)
(* Model of x2node-ws-resources: the transaction phase orchestrator        *)
(* (AbstractResourceHandler._executeTransaction), the transaction context  *)
(* (TransactionContext) and the phase lists the verb handlers assemble.    *)
(***************************************************************************)
EXTENDS Integers, Sequences, FiniteSets, TLC

\* ---------------------------------------------------------------- bounds
MaxPhases == 3
MaxListeners == 2
MaxTags == 2
MaxParts == 3
MaxParams == 3
MaxLeaves == 2
MaxSequence == 10
MaxVersion == 2

\* ---------------------------------------------------------------- values
\* Values that travel along the promise chain are numbered: 0 is
\* `undefined`, phase i resolves with i, Error instances are 11..29 and
\* service responses are their HTTP status codes.
Undefined == 0
ErrConn == 21
ErrNewTx == 22
ErrStart == 23
ErrCommit == 24
ErrRollback == 25
Resp304 == 304
Resp404 == 404
Resp412 == 412

PhaseResult(i) == i
PhaseError(i) == 10 + i

\* `err instanceof Error`
IsError(v) == v \in 11..29

\* ws.isResponse(v)
isResponse(v) == v \in 100..599

\* The promise a handler method returns: pending, or settled with a value;
\* created is the status of the response the method created around the
\* value (0 when the value is passed on as it is).
Reply(state, v, created) == [state |-> state, val |-> v, created |-> created]
NoReply == Reply("pending", 0, 0)

VARIABLES
    propRef,    \* parseQueryPropRef: the expression, the operations mapping, hasValue
    pred,       \* parseQueryPropRef: the descriptor returned, or the error thrown
    urlQuery,   \* parseSearchQuery: the URL query parameters, in key order
    queryParts, \* parseSearchQuery: the query parts to include in parsing
    querySpec,  \* parseSearchQuery: the filter built, the query parameters, the error
    versionCalls, \* _getRecordVersionInfo: two calls and the record each of them reads
    versionInfo,  \* _getRecordVersionInfo: the version information each call obtained
    response,   \* what _evaluatePreconditions returned for the call
    reply,      \* settlement of the promise the handler method returned
    handler,    \* the verb handler that runs the transaction, and its set-up
    call,       \* the service call: method, conditional headers, version info
    phases,     \* the phase list handed to _executeTransaction
    listeners,  \* txCtx._listeners: event name -> registered listeners
    complete,   \* txCtx._complete
    txSet,      \* txCtx._tx is defined
    txState,    \* state of the transaction object (isActive() <=> "active")
    pc,         \* position in the promise chain
    idx,        \* index of the next phase handler of the chain
    kinds,      \* what every phase invoked so far does: [kind, val]
    result,     \* value the chain is currently resolved with
    err,        \* value the chain is currently rejected with
    acquired,   \* connections handed out by getConnection()
    trace,      \* calls made on the collaborators, in order
    outcome     \* settlement of the promise _executeTransaction returned

parserVars == <<propRef, pred, urlQuery, queryParts, querySpec>>
versionVars == <<versionCalls, versionInfo>>

vars == <<parserVars, versionVars, reply, response, handler, call, phases, listeners, complete, txSet, txState, pc, idx, kinds, result,
          err, acquired, trace, outcome>>

Ev(op, i, arg, e) == [op |-> op, i |-> i, arg |-> arg, e |-> e]

Events == {"commit", "rollback"}
ListenerKinds == {"ok", "throw"}

PhaseKinds ==
    {"resolve", "complete", "throw", "reject", "completeReject", "commitReject"}

Does(k, v) == [kind |-> k, val |-> v]

\* What an arbitrary phase function (a transactionPhase callback) may do when
\* it is invoked as phase i: resolve, call makeComplete() and resolve, throw,
\* reject, call makeComplete() and reject, or commit the transaction itself
\* and reject.
AnyPhase(i) ==
    { Does("resolve", PhaseResult(i)), Does("complete", PhaseResult(i)),
      Does("throw", PhaseError(i)), Does("reject", Resp404),
      Does("completeReject", PhaseError(i)), Does("commitReject", Resp404) }

\* ------------------------------------------------- conditional requests
\* An If-Match / If-None-Match header: absent, '*', or a list of entity tags,
\* each strong or weak (W/ prefix). The current ETag is a number, 0 when the
\* resource has none. A date header is AbsentDate, NotADate (unparseable) or
\* a time; lastModified is NoDate or a time.
AbsentDate == -2
NotADate == -1
NoDate == -1
NoETag == 0
AbsentTags == [present |-> FALSE, star |-> FALSE, els |-> <<>>]
Star == [present |-> TRUE, star |-> TRUE, els |-> <<>>]
Tags(els) == [present |-> TRUE, star |-> FALSE, els |-> els]
Strong(t) == [weak |-> FALSE, tag |-> t]
Weak(t) == [weak |-> TRUE, tag |-> t]
Response(status, etag, lastModified) ==
    [status |-> status, etag |-> etag, lastModified |-> lastModified]
NoResponse == Response(0, NoETag, NoDate)

\* Faulty variant: the weak comparison is used whatever the header.
matchETagAlwaysWeak(hdr, etag, useWeak) ==
    IF hdr.star THEN TRUE
    ELSE IF etag = NoETag THEN FALSE
    ELSE \E j \in 1..Len(hdr.els) : hdr.els[j].tag = etag

\* AbstractResourceHandler._matchETag
matchETag(hdr, etag, useWeak) ==
    IF hdr.star THEN TRUE
    ELSE IF etag = NoETag THEN FALSE
    ELSE \E j \in 1..Len(hdr.els) :
           \/ (~hdr.els[j].weak /\ hdr.els[j].tag = etag)
           \/ (useWeak /\ hdr.els[j].weak /\ hdr.els[j].tag = etag)

\* Faulty variant: HEAD is treated like the state-changing methods.
getOnly(method) == method = "GET"

\* (httpMethod === 'GET') || (httpMethod === 'HEAD')
getOrHead(method) == method \in {"GET", "HEAD"}

\* Faulty variants of the If-Unmodified-Since test: a resource without
\* lastModified passes; the date is not checked to be a date.
unmodifiedSinceFailedKnownOnly(val, lastModified) ==
    val # NotADate /\ lastModified # NoDate /\ lastModified > val
unmodifiedSinceFailedAnyDate(val, lastModified) ==
    lastModified = NoDate \/ lastModified > val

\* !Number.isNaN(date) && (!lastModified || lastModified.getTime() > date)
unmodifiedSinceFailed(val, lastModified) ==
    val # NotADate /\ (lastModified = NoDate \/ lastModified > val)

\* Faulty variant of the If-Modified-Since test: not modified since the date.
notModifiedSince(val, lastModified) ==
    val # NotADate /\ lastModified # NoDate /\ lastModified <= val

\* !Number.isNaN(date) && lastModified && (lastModified.getTime() > date)
modifiedSince(val, lastModified) ==
    val # NotADate /\ lastModified # NoDate /\ lastModified > val

\* Faulty variant: If-Unmodified-Since is evaluated next to If-Match.
preconditionFailedBoth(h, etag, lastModified) ==
    \/ h.ifMatch.present /\ ~matchETag(h.ifMatch, etag, FALSE)
    \/ /\ h.ifUnmodifiedSince # AbsentDate
       /\ unmodifiedSinceFailed(h.ifUnmodifiedSince, lastModified)

\* The first if / else if of _evaluatePreconditions: If-Match, else
\* If-Unmodified-Since.
preconditionFailed(h, etag, lastModified) ==
    IF h.ifMatch.present
      THEN ~matchETag(h.ifMatch, etag, FALSE)
      ELSE /\ h.ifUnmodifiedSince # AbsentDate
           /\ unmodifiedSinceFailed(h.ifUnmodifiedSince, lastModified)

\* AbstractResourceHandler._evaluatePreconditions. The 304 of If-None-Match
\* sets the ETag header and, if (lastModified), the Last-Modified header; the
\* 304 of If-Modified-Since sets Last-Modified and, if (etag), the ETag header.
evaluatePreconditions(c, etag, lastModified) ==
    LET h == c.headers
    IN  IF preconditionFailed(h, etag, lastModified)
          THEN Response(412, NoETag, NoDate)
        ELSE IF h.ifNoneMatch.present
          THEN IF matchETag(h.ifNoneMatch, etag, TRUE)
                 THEN IF getOrHead(c.method)
                        THEN Response(304, etag, lastModified)
                        ELSE Response(412, NoETag, NoDate)
                 ELSE NoResponse
          ELSE IF /\ h.ifModifiedSince # AbsentDate
                  /\ getOrHead(c.method)
                  /\ modifiedSince(h.ifModifiedSince, lastModified)
                 THEN Response(304, etag, lastModified)
                 ELSE NoResponse

\* AbstractResourceHandler._isConditionalRequest
isConditionalRequest(c) ==
    \/ c.headers.ifMatch.present
    \/ c.headers.ifUnmodifiedSince # AbsentDate
    \/ c.headers.ifNoneMatch.present
    \/ c.headers.ifModifiedSince # AbsentDate

Headers(im, ius, inm, ims) ==
    [ifMatch |-> im, ifUnmodifiedSince |-> ius, ifNoneMatch |-> inm,
     ifModifiedSince |-> ims]
NoHeaders == Headers(AbsentTags, AbsentDate, AbsentTags, AbsentDate)

\* ------------------------------------------------------- verb handlers
Verbs == {"GET", "PATCH", "DELETE", "SEARCH", "POST", "BULKPATCH"}

\* call.httpRequest.method for each handler method
MethodOf(verb) ==
    CASE verb = "SEARCH" -> "GET"
      [] verb = "BULKPATCH" -> "PATCH"
      [] OTHER -> verb

\* The version information the handler evaluates the preconditions against:
\* the record's (when the record type has version properties) or the one of
\* the record collections monitor.
VersionETag(h, c) == IF h.versioned THEN c.etag ELSE NoETag
VersionLastModified(h, c) == IF h.versioned THEN c.lastModified ELSE NoDate
Evaluated(h, c) ==
    evaluatePreconditions(c, VersionETag(h, c), VersionLastModified(h, c))

\* Faulty variant: the response of the evaluator is returned, not rejected.
PrecondReturns(r, i) ==
    {Does("reject", Resp404)} \cup
    (IF r.status # 0 THEN {Does("resolve", r.status)}
                     ELSE {Does("resolve", PhaseResult(i))})

\* The PATCH phase that fetches the record and evaluates the preconditions:
\* a missing record rejects with a 404, a response of the evaluator is
\* returned as a rejection: return Promise.reject(response).
PrecondRejects(r, i) ==
    {Does("reject", Resp404)} \cup
    (IF r.status # 0 THEN {Does("reject", r.status)}
                     ELSE {Does("resolve", PhaseResult(i))})

\* A phase that evaluates the preconditions after a DBO has fetched the
\* version information: the DBO may reject (404); on a response of the
\* evaluator the phase calls makeComplete() and resolves with the response.
PrecondCompletes(r, i) ==
    {Does("reject", Resp404)} \cup
    (IF r.status # 0 THEN {Does("complete", r.status)}
                     ELSE {Does("resolve", PhaseResult(i))})

\* What a phase of the given type may do when it is invoked as phase i with
\* the previous result prev.
Behaviours(type, i, prev) ==
    CASE type = "phase" -> AnyPhase(i)
      [] type = "hook" -> AnyPhase(i) \ {Does("commitReject", Resp404)}
      [] type = "hookKeep" ->
            { Does("resolve", prev), Does("complete", prev),
              Does("throw", PhaseError(i)), Does("reject", Resp404),
              Does("completeReject", PhaseError(i)) }
      [] type = "dbo" -> {Does("resolve", PhaseResult(i)), Does("reject", Resp404)}
      [] type = "precond" -> PrecondCompletes(Evaluated(handler, call), i)
      [] type = "precondSync" ->
            IF Evaluated(handler, call).status # 0
              THEN {Does("complete", Evaluated(handler, call).status)}
              ELSE {Does("resolve", Undefined)}
      [] type = "precondPATCH" -> PrecondRejects(Evaluated(handler, call), i)
      [] type = "parentFetch" ->
            { Does("resolve", Undefined), Does("reject", PhaseError(i)),
              Does("commitReject", Resp404) }

Opt(flag, type) == IF flag THEN <<type>> ELSE <<>>

\* IndividualResourceHandler.GET
PhasesGET(h, c) ==
    LET versionInfoPrefetch == isConditionalRequest(c) /\ h.opt
    IN  Opt(h.hooks, "hook")
        \o Opt(versionInfoPrefetch /\ h.versioned, "precond")
        \o Opt(h.hooks, "hook")
        \o <<IF versionInfoPrefetch THEN "dbo" ELSE "precond">>
        \o Opt(h.hooks, "hook")

\* IndividualResourceHandler.PATCH
PhasesPATCH(h, c) ==
    Opt(h.hooks, "hook") \o <<"precondPATCH">> \o Opt(h.hooks, "hookKeep")
    \o <<"dbo">> \o Opt(h.hooks, "hookKeep") \o <<"dbo">>
    \o Opt(h.opt, "dbo") \o Opt(h.hooks, "hook")

\* IndividualResourceHandler.DELETE
PhasesDELETE(h, c) ==
    Opt(h.opt \/ (isConditionalRequest(c) /\ h.versioned), "dbo")
    \o Opt(isConditionalRequest(c), "precondSync")
    \o Opt(h.hooks, "hook") \o <<"dbo">> \o Opt(h.hooks, "hook")

\* CollectionResourceHandler.GET
PhasesSEARCH(h, c) ==
    Opt(h.versioned, "precond") \o Opt(h.hooks, "hook") \o <<"dbo">>
    \o Opt(h.hooks, "hook")

\* CollectionResourceHandler.POST
PhasesPOST(h, c) ==
    Opt(h.versioned, "precond") \o Opt(h.opt, "parentFetch")
    \o Opt(h.hooks, "hook") \o <<"dbo", "dbo">> \o Opt(h.hooks, "hook")

\* CollectionResourceHandler.PATCH
PhasesBULKPATCH(h, c) ==
    Opt(h.versioned, "precond") \o Opt(h.hooks, "hook") \o <<"dbo">>
    \o Opt(h.hooks, "hook")

HandlerPhases(h, c) ==
    CASE h.verb = "GET" -> PhasesGET(h, c)
      [] h.verb = "PATCH" -> PhasesPATCH(h, c)
      [] h.verb = "DELETE" -> PhasesDELETE(h, c)
      [] h.verb = "SEARCH" -> PhasesSEARCH(h, c)
      [] h.verb = "POST" -> PhasesPOST(h, c)
      [] h.verb = "BULKPATCH" -> PhasesBULKPATCH(h, c)

\* Faulty variants of the isActive() test, used to show that the claims below
\* depend on it.
isActiveNegated == txState # "active"
isActiveIfExists == txState # "none"
isActiveOrCommitted == txState \in {"active", "committed"}

\* txCtx._tx.isActive()
isActive == txState = "active"

\* behaviour of the phase invoked last
kind == IF kinds = <<>> THEN "none" ELSE kinds[Len(kinds)].kind
val == IF kinds = <<>> THEN Undefined ELSE kinds[Len(kinds)].val

\* Faulty variant: the listeners are never called.
emitNothing(tr, ev) == tr

\* Faulty variant: an error thrown by a listener ends the loop.
emitUntilThrow(tr, ev) ==
    LET thrown == {j \in 1..Len(listeners[ev]) : listeners[ev][j] = "throw"}
        last == IF thrown = {} THEN Len(listeners[ev])
                ELSE CHOOSE j \in thrown : \A k \in thrown : j <= k
    IN  tr \o <<Ev("emit", 0, 0, ev)>>
           \o [j \in 1..last |->
                Ev("listener", j, IF listeners[ev][j] = "throw" THEN 1 ELSE 0, ev)]

\* TransactionContext.emit: every listener of the event is called in
\* registration order, a throwing listener is caught and logged.
emit(tr, ev) ==
    tr \o <<Ev("emit", 0, 0, ev)>>
       \o [j \in 1..Len(listeners[ev]) |->
            Ev("listener", j, IF listeners[ev][j] = "throw" THEN 1 ELSE 0, ev)]

\* Faulty variant: the connection is released only on the branch that passes
\* an Error along.
releaseConnectionErrorOnly(tr, e) ==
    IF IsError(e) THEN Append(tr, Ev("release", 0, e, "")) ELSE tr

\* Faulty variant: whatever rejected the chain is passed along.
releaseConnectionAnyValue(tr, e) == Append(tr, Ev("release", 0, e, ""))

\* this._ds.releaseConnection(con[, err]): the error is passed along only
\* when it is an Error instance.
releaseConnection(tr, e) ==
    Append(tr, Ev("release", 0, IF IsError(e) THEN e ELSE Undefined, ""))

\* Faulty variants of the completeness test.
neverSkip(c) == FALSE
skipUnlessComplete(c) == ~c

\* if (txCtx.complete) return result;
skipPhase(c) == c

\* the query parser is not involved
NoParser ==
    /\ propRef = <<>>
    /\ pred = <<>>
    /\ urlQuery = <<>>
    /\ queryParts = {}
    /\ querySpec = <<>>
    /\ versionCalls = <<>>
    /\ versionInfo = <<>>

TypeOK ==
    /\ phases \in Seq({"phase", "hook", "hookKeep", "dbo", "precond",
                        "precondSync", "precondPATCH", "parentFetch"})
    /\ complete \in BOOLEAN
    /\ txSet \in BOOLEAN
    /\ pc \in {"propRef", "parsed", "query",
               "evaluate", "evaluated", "version", "versioned", "handler", "init", "acquiring", "starting", "chain", "phase", "phaseCommit",
               "committing", "catch", "rollingBack", "done",
               "called", "prepare", "rejected", "completed", "failed", "replied"}

GenericHandler ==
    [verb |-> "none", hooks |-> FALSE, versioned |-> FALSE, opt |-> FALSE]
\* the resource's current version: ETag 1, last modified at time 2
Call(method, hd) ==
    [method |-> method, headers |-> hd, etag |-> 1, lastModified |-> 2]

\* _executeTransaction called with an arbitrary list of phases
Init ==
    /\ NoParser
    /\ response = NoResponse
    /\ handler = GenericHandler
    /\ call = Call("GET", NoHeaders)
    /\ phases \in UNION {[1..n -> {"phase"}] : n \in 0..MaxPhases}
    /\ listeners = [ev \in Events |-> <<>>]
    /\ complete = FALSE
    /\ txSet = FALSE
    /\ txState = "none"
    /\ pc = "init"
    /\ idx = 1
    /\ kinds = <<>>
    /\ result = Undefined
    /\ err = Undefined
    /\ acquired = 0
    /\ trace = <<>>
    /\ outcome = [state |-> "pending", val |-> Undefined]
    /\ reply = NoReply

\* TransactionContext.on(eventName, listener), called before the
\* transaction is executed.
On ==
    /\ pc = "init"
    /\ Len(listeners["commit"]) + Len(listeners["rollback"]) < MaxListeners
    /\ \E ev \in Events, k \in ListenerKinds :
         listeners' = [listeners EXCEPT ![ev] = Append(@, k)]
    /\ UNCHANGED <<parserVars, versionVars, reply, response, handler, call, phases, complete, txSet, txState, pc, idx, kinds, result,
                   err, acquired, trace, outcome>>

\* this._ds.getConnection()
GetConnection ==
    /\ pc = "init"
    /\ pc' = "acquiring"
    /\ trace' = Append(trace, Ev("getConnection", 0, 0, ""))
    /\ UNCHANGED <<parserVars, versionVars, reply, response, handler, call, phases, listeners, complete, txSet, txState, idx, kinds,
                   result, err, acquired, outcome>>

\* getConnection() rejected: the chain falls through to the catch handler.
ConnectionRejected ==
    /\ pc = "acquiring"
    /\ err' = ErrConn
    /\ pc' = "catch"
    /\ UNCHANGED <<parserVars, versionVars, reply, response, handler, call, phases, listeners, complete, txSet, txState, idx, kinds,
                   result, acquired, trace, outcome>>

\* con => (txCtx._tx = this._dboFactory.newTransaction(con)).start()
StartTransaction ==
    /\ pc = "acquiring"
    /\ acquired' = acquired + 1
    /\ \/ \* newTransaction(con) throws: txCtx._tx is never assigned
          /\ err' = ErrNewTx
          /\ pc' = "catch"
          /\ UNCHANGED <<txSet, txState, trace>>
       \/ /\ txSet' = TRUE
          /\ txState' = "new"
          /\ trace' = Append(trace, Ev("start", 0, 0, ""))
          /\ pc' = "starting"
          /\ UNCHANGED err
    /\ UNCHANGED <<parserVars, versionVars, reply, response, handler, call, phases, listeners, complete, idx, kinds, result, outcome>>

StartResolved ==
    /\ pc = "starting"
    /\ txState' = "active"
    /\ result' = Undefined
    /\ pc' = "chain"
    /\ UNCHANGED <<parserVars, versionVars, reply, response, handler, call, phases, listeners, complete, txSet, idx, kinds, err,
                   acquired, trace, outcome>>

StartRejected ==
    /\ pc = "starting"
    /\ err' = ErrStart
    /\ pc' = "catch"
    /\ UNCHANGED <<parserVars, versionVars, reply, response, handler, call, phases, listeners, complete, txSet, txState, idx, kinds,
                   result, acquired, trace, outcome>>

\* The handler queued for one phase: skip it when the context is complete,
\* else call phase(txCtx._tx, txCtx, result).
RunPhase ==
    /\ pc = "chain"
    /\ idx <= Len(phases)
    /\ IF skipPhase(complete)
         THEN /\ idx' = idx + 1
              /\ UNCHANGED <<pc, kinds, err, trace>>
         ELSE \E b \in Behaviours(phases[idx], idx, result) :
              /\ trace' = Append(trace, Ev("phase", idx, result, ""))
              /\ kinds' = Append(kinds, b)
              /\ IF b.kind = "throw"
                   THEN /\ err' = b.val
                        /\ pc' = "catch"
                   ELSE /\ pc' = "phase"
                        /\ UNCHANGED err
              /\ UNCHANGED idx
    /\ UNCHANGED <<parserVars, versionVars, reply, response, handler, call, phases, listeners, complete, txSet, txState, result,
                   acquired, outcome>>

\* The promise a phase returned settles.
PhaseSettled ==
    /\ pc = "phase"
    /\ \/ /\ kind \in {"resolve", "complete"}
          /\ complete' = (complete \/ kind = "complete")
          /\ result' = val
          /\ idx' = idx + 1
          /\ pc' = "chain"
          /\ UNCHANGED <<err, trace>>
       \/ /\ kind \in {"reject", "completeReject"}
          /\ complete' = (complete \/ kind = "completeReject")
          /\ err' = val
          /\ pc' = "catch"
          /\ UNCHANGED <<result, idx, trace>>
       \/ \* the phase commits the transaction itself: tx.commit().then(...)
          /\ kind = "commitReject"
          /\ trace' = Append(trace, Ev("commit", idx, Undefined, ""))
          /\ pc' = "phaseCommit"
          /\ UNCHANGED <<complete, result, err, idx>>
    /\ UNCHANGED <<parserVars, versionVars, reply, response, handler, call, phases, listeners, txSet, txState, kinds, acquired,
                   outcome>>

\* tx.commit().then(() => Promise.reject(response)) inside a phase.
PhaseCommitSettled ==
    /\ pc = "phaseCommit"
    /\ \/ /\ txState' = "committed"
          /\ err' = val
       \/ /\ txState' \in {"active", "failed"}
          /\ err' = ErrCommit
    /\ pc' = "catch"
    /\ UNCHANGED <<parserVars, versionVars, reply, response, handler, call, phases, listeners, complete, txSet, idx, kinds, result,
                   acquired, trace, outcome>>

\* result => txCtx._tx.commit(result)
CommitTransaction ==
    /\ pc = "chain"
    /\ idx > Len(phases)
    /\ trace' = Append(trace, Ev("commit", 0, result, ""))
    /\ pc' = "committing"
    /\ UNCHANGED <<parserVars, versionVars, reply, response, handler, call, phases, listeners, complete, txSet, txState, idx, kinds,
                   result, err, acquired, outcome>>

\* commit resolved with its payload; release the connection, drop the
\* transaction, call the commit listeners, resolve with the result.
CommitResolved ==
    /\ pc = "committing"
    /\ txState' = "committed"
    /\ txSet' = FALSE
    /\ trace' = emit(releaseConnection(trace, Undefined), "commit")
    /\ outcome' = [state |-> "resolved", val |-> result]
    /\ pc' = "done"
    /\ UNCHANGED <<parserVars, versionVars, reply, response, handler, call, phases, listeners, complete, idx, kinds, result, err,
                   acquired>>

CommitRejected ==
    /\ pc = "committing"
    /\ txState' \in {"active", "failed"}
    /\ err' = ErrCommit
    /\ pc' = "catch"
    /\ UNCHANGED <<parserVars, versionVars, reply, response, handler, call, phases, listeners, complete, txSet, idx, kinds, result,
                   acquired, trace, outcome>>

\* promiseChain.catch(err => ...)
OnRejected ==
    /\ pc = "catch"
    /\ IF txSet
         THEN IF isActive
                THEN /\ trace' = Append(trace, Ev("rollback", 0, err, ""))
                     /\ pc' = "rollingBack"
                     /\ UNCHANGED <<txSet, outcome>>
                ELSE /\ txSet' = FALSE
                                      /\ trace' = emit(releaseConnection(trace, err), "rollback")
                     /\ outcome' = [state |-> "rejected", val |-> err]
                     /\ pc' = "done"
         ELSE /\ outcome' = [state |-> "rejected", val |-> err]
              /\ pc' = "done"
              /\ UNCHANGED <<txSet, trace>>
    /\ UNCHANGED <<parserVars, versionVars, reply, response, handler, call, phases, listeners, complete, txState, idx, kinds, result,
                   err, acquired>>

\* What rollback(err).catch(err => err) hands to the handler that follows.
rollbackValue(orig, ok) == IF ok THEN orig ELSE ErrRollback

\* rollback(err).catch(err => err).then(err => {...})
AfterRollback(ok) ==
    /\ pc = "rollingBack"
    /\ txState' = IF ok THEN "rolledBack" ELSE "failed"
    /\ txSet' = FALSE
    /\ trace' = emit(releaseConnection(trace, rollbackValue(err, ok)), "rollback")
    /\ outcome' = [state |-> "rejected", val |-> rollbackValue(err, ok)]
    /\ pc' = "done"
    /\ UNCHANGED <<parserVars, versionVars, reply, response, handler, call, phases, listeners, complete, idx, kinds, result, err,
                   acquired>>

RollbackResolved == AfterRollback(TRUE)

RollbackRejected == AfterRollback(FALSE)

TxStep ==
    \/ GetConnection
    \/ ConnectionRejected
    \/ StartTransaction
    \/ StartResolved
    \/ StartRejected
    \/ RunPhase
    \/ PhaseSettled
    \/ PhaseCommitSettled
    \/ CommitTransaction
    \/ CommitResolved
    \/ CommitRejected
    \/ OnRejected
    \/ RollbackResolved
    \/ RollbackRejected

Next == On \/ TxStep

Spec == Init /\ [][Next]_vars

\* ------------------------------------------------- the verb handlers' runs
\* Conditional headers of the calls the handlers are run with, against a
\* resource with ETag 1 modified at time 2.
HandlerHeaders ==
    { NoHeaders,
      Headers(Tags(<<Strong(1)>>), AbsentDate, AbsentTags, AbsentDate),
      Headers(Tags(<<Strong(2)>>), AbsentDate, AbsentTags, AbsentDate),
      Headers(AbsentTags, 1, AbsentTags, AbsentDate),
      Headers(AbsentTags, AbsentDate, Tags(<<Weak(1)>>), AbsentDate),
      Headers(AbsentTags, AbsentDate, AbsentTags, 1) }

\* A verb handler method is called: each of hooks (the extension defines the
\* before/after hooks), versioned (the record type has version properties,
\* resp. the DBO factory has a record collections monitor) and opt (GET:
\* complex read DBO, PATCH: 'reread' response, DELETE: properties to fetch,
\* POST: dependent resource) may be set.
InitHandlers ==
    /\ NoParser
    /\ response = NoResponse
    /\ handler \in [verb : Verbs, hooks : BOOLEAN, versioned : BOOLEAN,
                     opt : BOOLEAN]
    /\ call \in {Call(MethodOf(handler.verb), hd) : hd \in HandlerHeaders}
    /\ phases = <<>>
    /\ listeners = [ev \in Events |-> <<>>]
    /\ complete = FALSE
    /\ txSet = FALSE
    /\ txState = "none"
    /\ pc = "handler"
    /\ idx = 1
    /\ kinds = <<>>
    /\ result = Undefined
    /\ err = Undefined
    /\ acquired = 0
    /\ trace = <<>>
    /\ outcome = [state |-> "pending", val |-> Undefined]
    /\ reply = NoReply

\* The handler method assembles the transaction phases and calls
\* _executeTransaction. An individual GET whose read DBO is complex and
\* whose record type has no version properties evaluates the preconditions
\* before any transaction and returns the response at once.
AssemblePhases ==
    /\ pc = "handler"
    /\ IF /\ handler.verb = "GET"
          /\ isConditionalRequest(call)
          /\ handler.opt
          /\ ~handler.versioned
          /\ evaluatePreconditions(call, NoETag, NoDate).status # 0
         THEN /\ pc' = "done"
              /\ UNCHANGED phases
         ELSE /\ phases' = HandlerPhases(handler, call)
              /\ pc' = "init"
    /\ UNCHANGED <<parserVars, versionVars, reply, response, handler, call, listeners, complete, txSet, txState, idx,
                   kinds, result, err, acquired, trace, outcome>>

NextHandlers == AssemblePhases \/ TxStep

SpecHandlers == InitHandlers /\ [][NextHandlers]_vars

\* ------------------------------------------- the evaluator on its own
\* _evaluatePreconditions called with every combination of method,
\* conditional headers and version information of the resource.
EvalMethods == {"GET", "HEAD", "PATCH"}
TagEntries == {Strong(1), Strong(2), Weak(1)}
TagHeaders ==
    {AbsentTags, Star}
    \cup {Tags(els) : els \in UNION {[1..n -> TagEntries] : n \in 0..MaxTags}}
DateHeaders == {AbsentDate, NotADate, 1, 2}
ETags == {NoETag, 1}
LastModifieds == {NoDate, 1, 2}

InitEvaluator ==
    /\ NoParser
    /\ response = NoResponse
    /\ handler = GenericHandler
    /\ call \in [method : EvalMethods,
                 headers : [ifMatch : TagHeaders, ifUnmodifiedSince : DateHeaders,
                            ifNoneMatch : TagHeaders, ifModifiedSince : DateHeaders],
                 etag : ETags, lastModified : LastModifieds]
    /\ phases = <<>>
    /\ listeners = [ev \in Events |-> <<>>]
    /\ complete = FALSE
    /\ txSet = FALSE
    /\ txState = "none"
    /\ pc = "evaluate"
    /\ idx = 1
    /\ kinds = <<>>
    /\ result = Undefined
    /\ err = Undefined
    /\ acquired = 0
    /\ trace = <<>>
    /\ outcome = [state |-> "pending", val |-> Undefined]
    /\ reply = NoReply

\* this._evaluatePreconditions(call, etag, lastModified)
Evaluate ==
    /\ pc = "evaluate"
    /\ response' = evaluatePreconditions(call, call.etag, call.lastModified)
    /\ pc' = "evaluated"
    /\ UNCHANGED <<parserVars, versionVars, reply, handler, call, phases, listeners, complete, txSet,
                   txState, idx, kinds, result, err, acquired, trace, outcome>>

NextEvaluator == Evaluate

SpecEvaluator == InitEvaluator /\ [][NextEvaluator]_vars

\* ------------------------------------------------- the search query parser
\* A property value expression such as accountRef.lastName:len:min! is kept
\* split as the parser splits it: the property path p1.p2 (split('.')), the
\* parts that follow it (split(':')) and the trailing '!'.
PropRef(path, parts, invert) == [path |-> path, parts |-> parts, invert |-> invert]

\* Number(token) for the tokens used as arguments and values; NaN when the
\* token is not a number. Number('') is 0.
NaN == -999
NumberOf(tok) ==
    CASE tok = "" -> 0
      [] tok = "0" -> 0
      [] tok = "1" -> 1
      [] tok = "2" -> 2
      [] tok = "3" -> 3
      [] tok = "5" -> 5
      [] tok = "10" -> 10
      [] tok = "20" -> 20
      [] tok = "100" -> 100
      [] tok = "-1" -> -1
      [] OTHER -> NaN
\* token.length
LengthOf(tok) ==
    CASE tok = "" -> 0
      [] tok \in {"0", "1", "2", "3", "5", "x", "a", "b", "f"} -> 1
      [] OTHER -> 2

\* The record types library the parser resolves the paths against: record
\* type Order with a string, a number, a collection of nested objects, a
\* reference and a nested object; nested Item objects hold Item objects.
NoContainer == "none"
PropDesc(scalar, ref, valueType, nested) ==
    [scalar |-> scalar, ref |-> ref, scalarValueType |-> valueType,
     nestedProperties |-> nested]
NoPropDesc == PropDesc(TRUE, FALSE, "none", NoContainer)
Props(container) ==
    CASE container = "Order" ->
            [status |-> PropDesc(TRUE, FALSE, "string", NoContainer),
             price |-> PropDesc(TRUE, FALSE, "number", NoContainer),
             items |-> PropDesc(FALSE, FALSE, "object", "Item"),
             accountRef |-> PropDesc(TRUE, TRUE, "ref", "Account"),
             address |-> PropDesc(TRUE, FALSE, "object", "Address")]
      [] container = "Item" ->
            [name |-> PropDesc(TRUE, FALSE, "string", NoContainer),
             items |-> PropDesc(FALSE, FALSE, "object", "Item")]
      [] container = "Account" ->
            [id |-> PropDesc(TRUE, FALSE, "number", NoContainer),
             lastName |-> PropDesc(TRUE, FALSE, "string", NoContainer)]
      [] container = "Address" ->
            [city |-> PropDesc(TRUE, FALSE, "string", NoContainer)]
      [] OTHER -> <<>>
hasProperty(container, propName) == propName \in DOMAIN Props(container)
getPropertyDesc(container, propName) == Props(container)[propName]
idPropertyName(container) == "id"
\* targetDesc.name + '#'
RefPrefix(target) == <<target, "#">>
NoRefPrefix == <<>>

\* const ORDER_OPS_MAPPING, FILTER_OPS_MAPPING. A key '$default:collection:
\* value!' is kept as <<name, ':collection', ':value', '!'>>, a key 'min!' as
\* <<"min", FALSE, FALSE, TRUE>>.
OpKey(name, collection, value, invert) == <<name, collection, value, invert>>
ORDER_OPS_MAPPING ==
    (OpKey("$default", FALSE, FALSE, FALSE) :> "asc")
    @@ (OpKey("asc", FALSE, FALSE, FALSE) :> "asc")
    @@ (OpKey("desc", FALSE, FALSE, FALSE) :> "desc")
\* Faulty variant: the '!' of max! is dropped.
FILTER_OPS_MAPPING_MaxNotInverted ==
    (OpKey("$default", FALSE, FALSE, FALSE) :> "!empty")
    @@ (OpKey("$default", TRUE, FALSE, FALSE) :> "!empty")
    @@ (OpKey("$default", FALSE, TRUE, FALSE) :> "eq")
    @@ (OpKey("$default", TRUE, TRUE, FALSE) :> "!empty")
    @@ (OpKey("$default", FALSE, FALSE, TRUE) :> "empty")
    @@ (OpKey("$default", TRUE, FALSE, TRUE) :> "empty")
    @@ (OpKey("$default", FALSE, TRUE, TRUE) :> "ne")
    @@ (OpKey("$default", TRUE, TRUE, TRUE) :> "empty")
    @@ (OpKey("min", FALSE, FALSE, FALSE) :> "ge")
    @@ (OpKey("max", FALSE, FALSE, FALSE) :> "le")
    @@ (OpKey("pat", FALSE, FALSE, FALSE) :> "matchesi")
    @@ (OpKey("mid", FALSE, FALSE, FALSE) :> "containsi")
    @@ (OpKey("pre", FALSE, FALSE, FALSE) :> "startsi")
    @@ (OpKey("alt", FALSE, FALSE, FALSE) :> "in")
    @@ (OpKey("count", FALSE, FALSE, FALSE) :> "count")
    @@ (OpKey("min", FALSE, FALSE, TRUE) :> "lt")
    @@ (OpKey("max", FALSE, FALSE, TRUE) :> "le")
    @@ (OpKey("pat", FALSE, FALSE, TRUE) :> "!matchesi")
    @@ (OpKey("mid", FALSE, FALSE, TRUE) :> "!containsi")
    @@ (OpKey("pre", FALSE, FALSE, TRUE) :> "!startsi")
    @@ (OpKey("alt", FALSE, FALSE, TRUE) :> "!in")
    @@ (OpKey("count", FALSE, FALSE, TRUE) :> "!count")

\* FILTER_OPS_MAPPING
FILTER_OPS_MAPPING ==
    (OpKey("$default", FALSE, FALSE, FALSE) :> "!empty")
    @@ (OpKey("$default", TRUE, FALSE, FALSE) :> "!empty")
    @@ (OpKey("$default", FALSE, TRUE, FALSE) :> "eq")
    @@ (OpKey("$default", TRUE, TRUE, FALSE) :> "!empty")
    @@ (OpKey("$default", FALSE, FALSE, TRUE) :> "empty")
    @@ (OpKey("$default", TRUE, FALSE, TRUE) :> "empty")
    @@ (OpKey("$default", FALSE, TRUE, TRUE) :> "ne")
    @@ (OpKey("$default", TRUE, TRUE, TRUE) :> "empty")
    @@ (OpKey("min", FALSE, FALSE, FALSE) :> "ge")
    @@ (OpKey("max", FALSE, FALSE, FALSE) :> "le")
    @@ (OpKey("pat", FALSE, FALSE, FALSE) :> "matchesi")
    @@ (OpKey("mid", FALSE, FALSE, FALSE) :> "containsi")
    @@ (OpKey("pre", FALSE, FALSE, FALSE) :> "startsi")
    @@ (OpKey("alt", FALSE, FALSE, FALSE) :> "in")
    @@ (OpKey("count", FALSE, FALSE, FALSE) :> "count")
    @@ (OpKey("min", FALSE, FALSE, TRUE) :> "lt")
    @@ (OpKey("max", FALSE, FALSE, TRUE) :> "gt")
    @@ (OpKey("pat", FALSE, FALSE, TRUE) :> "!matchesi")
    @@ (OpKey("mid", FALSE, FALSE, TRUE) :> "!containsi")
    @@ (OpKey("pre", FALSE, FALSE, TRUE) :> "!startsi")
    @@ (OpKey("alt", FALSE, FALSE, TRUE) :> "!in")
    @@ (OpKey("count", FALSE, FALSE, TRUE) :> "!count")
OpsMapping(name) == IF name = "ORDER" THEN ORDER_OPS_MAPPING ELSE FILTER_OPS_MAPPING

\* The descriptor parseQueryPropRef returns, or the X2SyntaxError it throws.
Pred(propDesc, expr, op, valueType, refPrefix, multi, requiresValue) ==
    [error |-> "", propDesc |-> propDesc, spec |-> [expr |-> expr, op |-> op],
     valueType |-> valueType, refPrefix |-> refPrefix, multi |-> multi,
     requiresValue |-> requiresValue]
PredError(msg) ==
    [error |-> msg, propDesc |-> NoPropDesc, spec |-> [expr |-> <<>>, op |-> ""],
     valueType |-> "none", refPrefix |-> NoRefPrefix, multi |-> FALSE,
     requiresValue |-> FALSE]

\* The loop over propRefPart.split('.') of parseQueryPropRef (i === 0); st
\* holds the loop's variables.
RECURSIVE ResolvePath(_, _)
ResolvePath(st, names) ==
    IF names = <<>> \/ st.error # "" THEN st
    ELSE LET propName == Head(names) IN
         IF st.container = NoContainer \/ ~hasProperty(st.container, propName)
           THEN [st EXCEPT !.error = "invalid property path."]
         ELSE IF st.collection
           THEN [st EXCEPT !.error = "non-scalar intermediate."]
         ELSE LET propDesc == getPropertyDesc(st.container, propName)
                  targetDesc == propDesc.nestedProperties
              IN  ResolvePath(
                    [error |-> "",
                     container |-> propDesc.nestedProperties,
                     collection |-> ~propDesc.scalar,
                     propDesc |-> propDesc,
                     valueType |->
                        IF propDesc.ref
                          THEN getPropertyDesc(targetDesc,
                                 idPropertyName(targetDesc)).scalarValueType
                          ELSE propDesc.scalarValueType,
                     refPrefix |->
                        IF propDesc.ref THEN RefPrefix(targetDesc)
                                        ELSE st.refPrefix],
                    Tail(names))

\* Faulty variant: a transformation is applied to a number as well.
notStringNorNumber(valueType) == valueType \notin {"string", "number"}

\* valueType !== 'string'
notString(valueType) == valueType # "string"

\* Faulty variant: count is accepted wherever it stands.
countAnywhere(i, len) == FALSE

\* i < len - 1, for part i of the len - 1 parts that follow the path
countNotLast(i, len) == i < len - 1

\* The loop over the parts after the path (i > 0): transformations and the
\* end operation. st holds spec, valueType, refPrefix and opRef.
RECURSIVE ApplyParts(_, _, _, _)
ApplyParts(st, parts, i, collection) ==
    IF st.error # "" \/ i > Len(parts) THEN st
    ELSE
    LET part == parts[i]
        last == (i = Len(parts))
        fail(msg) == [st EXCEPT !.error = msg]
        arg1 == NumberOf(parts[i + 1])
        arg2 == parts[i + 2]
    IN
    IF collection THEN
        IF part = "count"
          THEN IF countNotLast(i, Len(parts) + 1)
                 THEN fail("\"count\" must be the only operation.")
               ELSE ApplyParts([st EXCEPT !.opRef = part, !.refPrefix = NoRefPrefix],
                               parts, i + 1, collection)
          ELSE fail("transformation or operation on a non-scalar.")
    ELSE IF part = "len" THEN
        IF notString(st.valueType)
          THEN fail("transformation \"len\" expects string input.")
          ELSE ApplyParts([st EXCEPT !.expr = <<"length(">> \o @ \o <<")">>,
                                     !.valueType = "number",
                                     !.refPrefix = NoRefPrefix],
                          parts, i + 1, collection)
    ELSE IF part = "lc" THEN
        IF notString(st.valueType)
          THEN fail("transformation \"lc\" expects string input.")
          ELSE ApplyParts([st EXCEPT !.expr = <<"lower(">> \o @ \o <<")">>,
                                     !.valueType = "string",
                                     !.refPrefix = NoRefPrefix],
                          parts, i + 1, collection)
    ELSE IF part = "sub" THEN
        IF notString(st.valueType)
          THEN fail("transformation \"sub\" expects string input.")
        ELSE IF i + 2 > Len(parts)
          THEN fail("transformation \"sub\" expects two arguments.")
        ELSE IF arg1 = NaN \/ arg1 < 0
          THEN fail("transformation \"sub\" expects positive integer first argument.")
        ELSE IF LengthOf(arg2) > 0
          THEN IF NumberOf(arg2) = NaN \/ NumberOf(arg2) < 0
                 THEN fail("transformation \"sub\" expects empty or positive integer second argument.")
                 ELSE ApplyParts(
                        [st EXCEPT !.expr = <<"substring(">> \o @
                                      \o <<",", arg1, ",", NumberOf(arg2), ")">>,
                                   !.valueType = "string",
                                   !.refPrefix = NoRefPrefix],
                        parts, i + 3, collection)
          ELSE ApplyParts(
                 [st EXCEPT !.expr = <<"substring(">> \o @ \o <<",", arg1, ")">>,
                            !.valueType = "string",
                            !.refPrefix = NoRefPrefix],
                 parts, i + 3, collection)
    ELSE IF part = "lpad" THEN
        IF notString(st.valueType)
          THEN fail("transformation \"lpad\" expects string input.")
        ELSE IF i + 2 > Len(parts)
          THEN fail("transformation \"lpad\" expects two arguments.")
        ELSE IF arg1 = NaN \/ arg1 < 0
          THEN fail("transformation \"lpad\" expects positive integer first argument.")
        ELSE IF LengthOf(arg2) > 1
          THEN fail("transformation \"lpad\" expects empty or single character second argument.")
          ELSE ApplyParts(
                 [st EXCEPT !.expr = <<"lpad(">> \o @
                               \o <<",", arg1, ",",
                                    IF LengthOf(arg2) = 0 THEN " " ELSE arg2, ")">>,
                            !.valueType = "string",
                            !.refPrefix = NoRefPrefix],
                 parts, i + 3, collection)
    ELSE IF ~last THEN fail("unknown transformation.")
    ELSE ApplyParts([st EXCEPT !.opRef = part], parts, i + 1, collection)

\* Faulty variant: no operation requires a value.
requiresValueNever(opRef) == FALSE

\* requiresValue: !opRef.startsWith('$default')
requiresValue(opRef) == opRef # "$default"

\* Faulty variant: a nested object is accepted as the subject of a test.
nestedObjectAccepted(valueType, collection) == FALSE

\* (valueType === 'object') && !collection
nestedObjectTest(valueType, collection) == valueType = "object" /\ ~collection

\* Faulty variant of the choice of the default operation: a collection
\* with a value is compared like a scalar.
defaultKeyScalarOnly(collection, hasValue, invert) ==
    OpKey("$default", FALSE, hasValue, invert)

\* opRef = '$default' [+ ':collection'] [+ ':value'] [+ '!']
defaultKey(collection, hasValue, invert) ==
    OpKey("$default", collection, hasValue, invert)

\* parseQueryPropRef(baseContainer, propRef, opsMapping, hasValue)
parseQueryPropRef(baseContainer, ref, opsMapping, hasValue) ==
    LET resolved ==
            ResolvePath([error |-> "", container |-> baseContainer,
                         collection |-> FALSE, propDesc |-> NoPropDesc,
                         valueType |-> "none", refPrefix |-> NoRefPrefix],
                        ref.path)
        applied ==
            ApplyParts([error |-> "", expr |-> ref.path,
                        valueType |-> resolved.valueType,
                        refPrefix |-> resolved.refPrefix, opRef |-> ""],
                       ref.parts, 1, resolved.collection)
        key == IF applied.opRef # ""
                 THEN OpKey(applied.opRef, FALSE, FALSE, ref.invert)
                 ELSE defaultKey(resolved.collection, hasValue, ref.invert)
    IN  IF resolved.error # "" THEN PredError(resolved.error)
        ELSE IF nestedObjectTest(resolved.valueType, resolved.collection)
          THEN PredError("nested object used for non-collection test.")
        ELSE IF applied.error # "" THEN PredError(applied.error)
        ELSE IF key \notin DOMAIN opsMapping
          THEN PredError(IF applied.opRef # ""
                           THEN "unknown operation."
                           ELSE "this type of expression is not allowed.")
        ELSE Pred(resolved.propDesc, applied.expr, opsMapping[key],
                  IF key[1] = "pat" THEN "$pattern" ELSE applied.valueType,
                  applied.refPrefix, key[1] = "alt", requiresValue(key[1]))

\* Expressions the parser is given: paths over the record types above, up to
\* MaxParts parts after the path, with and without the trailing '!'.
Paths ==
    { <<"status">>, <<"price">>, <<"items">>, <<"accountRef">>,
      <<"accountRef", "lastName">>, <<"address">>, <<"items", "name">>,
      <<"nope">> }
PartTokens == {"len", "lc", "sub", "lpad", "min", "alt", "pat", "count", "2", ""}
PropRefs ==
    { PropRef(path, parts, invert) :
        path \in Paths,
        parts \in UNION {[1..n -> PartTokens] : n \in 0..MaxParts},
        invert \in BOOLEAN }

InitPropRef ==
    /\ propRef \in [ref : PropRefs, opsMapping : {"FILTER", "ORDER"},
                    hasValue : BOOLEAN]
    /\ pred = <<>>
    /\ urlQuery = <<>>
    /\ queryParts = {}
    /\ querySpec = <<>>
    /\ versionCalls = <<>>
    /\ versionInfo = <<>>
    /\ response = NoResponse
    /\ handler = GenericHandler
    /\ call = Call("GET", NoHeaders)
    /\ phases = <<>>
    /\ listeners = [ev \in Events |-> <<>>]
    /\ complete = FALSE
    /\ txSet = FALSE
    /\ txState = "none"
    /\ pc = "propRef"
    /\ idx = 1
    /\ kinds = <<>>
    /\ result = Undefined
    /\ err = Undefined
    /\ acquired = 0
    /\ trace = <<>>
    /\ outcome = [state |-> "pending", val |-> Undefined]
    /\ reply = NoReply

\* parseQueryPropRef(recordTypeDesc, propRef, opsMapping, hasValue)
ParsePropRef ==
    /\ pc = "propRef"
    /\ pred' = parseQueryPropRef("Order", propRef.ref,
                                 OpsMapping(propRef.opsMapping), propRef.hasValue)
    /\ pc' = "parsed"
    /\ UNCHANGED <<versionVars, propRef, urlQuery, queryParts, querySpec, reply, response, handler, call, phases,
                   listeners, complete, txSet, txState, idx, kinds, result, err,
                   acquired, trace, outcome>>

NextPropRef == ParsePropRef

SpecPropRef == InitPropRef /\ [][NextPropRef]_vars

\* ------------------------------------------------------ the filter parser
\* A filter parameter <group>$<refExpr>=<values>: refExpr is a junction
\* (':or', ':and!', ...) or a property value expression; the values are the
\* strings given for the parameter name, in order.
Param(group, junction, prop, vals) ==
    [group |-> group, junction |-> junction, prop |-> prop, vals |-> vals]
NoPropRef == PropRef(<<>>, <<>>, FALSE)

\* valExpr.split(':'), valExpr.split('|') for the values used
SplitColon(v) ==
    CASE v = "2:a" -> <<"2", "a">>
      [] v = "2:" -> <<"2", "">>
      [] v = "x:a" -> <<"x", "a">>
      [] v = "2:a:b" -> <<"2", "a", "b">>
      [] OTHER -> <<v>>
SplitPipe(v) ==
    CASE v = "5|10" -> <<"5", "10">>
      [] v = "a|b" -> <<"a", "b">>
      [] OTHER -> <<v>>
\* val.startsWith(pred.refPrefix), val.substring(pred.refPrefix.length)
StartsWith(v, prefix) ==
    prefix = RefPrefix("Account") /\ v \in {"Account#5", "Account#x"}
Substring(v, prefix) ==
    CASE v = "Account#5" -> "5"
      [] v = "Account#x" -> "x"
      [] OTHER -> v

\* valueToQueryParam(val, pred): the converted value, or the error thrown
Converted(res) == [error |-> "", res |-> res]
NotConverted(msg) == [error |-> msg, res |-> 0]
\* Faulty variant: a value that is not a number is bound as it converts.
valueToQueryParamUnchecked(v, p) ==
    IF p.valueType = "number" THEN Converted(NumberOf(v)) ELSE Converted(v)

\* valueToQueryParam(val, pred)
valueToQueryParam(v, p) ==
    LET stripped == IF p.refPrefix # NoRefPrefix /\ StartsWith(v, p.refPrefix)
                      THEN Substring(v, p.refPrefix) ELSE v
    IN  CASE p.valueType = "string" -> Converted(stripped)
          [] p.valueType = "number" ->
                IF NumberOf(stripped) = NaN
                  THEN NotConverted("Invalid test value, expected a number.")
                  ELSE Converted(NumberOf(stripped))
          [] p.valueType = "boolean" ->
                IF v \in {"true", "false"}
                  THEN Converted(v = "true")
                  ELSE NotConverted("Invalid test value, expected \"true\" or \"false\".")
          [] p.valueType = "$pattern" ->
                IF v = "("
                  THEN NotConverted("Invalid test value, expected a valid regular expression.")
                  ELSE Converted(v)
          [] OTHER -> NotConverted("Internal X2 error: unexpected query parameter value type.")

\* Nodes of the filter specification: a group [junc, members] and a test
\* [spec, count?, param?, [sub-filter group]?]; subs holds the [ nestedGroup ]
\* pushed to a collection test.
NoSpec == [expr |-> <<>>, op |-> ""]
NoNode == [type |-> "none", junc |-> "", members |-> <<>>, spec |-> NoSpec,
           count |-> NaN, param |-> "", subs |-> <<>>]
Group(junc, members) ==
    [type |-> "group", junc |-> junc, members |-> members, spec |-> NoSpec,
     count |-> NaN, param |-> "", subs |-> <<>>]
Test(spec, count, param, subs) ==
    [type |-> "test", junc |-> "", members |-> <<>>, spec |-> spec,
     count |-> count, param |-> param, subs |-> subs]

\* switch (refExpr): the nested group's junction, "" for an invalid one
nestedJunc(refExpr) ==
    CASE refExpr = ":or" -> ":or"
      [] refExpr = ":or!" -> ":!or"
      [] refExpr = ":and" -> ":and"
      [] refExpr = ":and!" -> ":!and"
      [] OTHER -> ""

\* Faulty variant: an empty group is returned as a node.
groupNodeAlways(junc, members) == Group(junc, members)

\* return (members.length > 0 ? [ junc, members ] : undefined)
groupNode(junc, members) ==
    IF Len(members) > 0 THEN Group(junc, members) ELSE NoNode

\* Faulty variant: every nested group is reported as a circular reference.
circularIfNested(parentGroupIds, groupId) == parentGroupIds # {}

\* parentGroupIds.has(groupId)
circularReference(parentGroupIds, groupId) == groupId \in parentGroupIds

\* parentGroupIds.add(groupId)
withParent(parentGroupIds, groupId) == parentGroupIds \cup {groupId}

\* Faulty variant: the group id stays in the set after the descent.
withoutParentKept(parentGroupIds, groupId) == parentGroupIds

\* parentGroupIds.delete(groupId)
withoutParent(parentGroupIds, groupId) == parentGroupIds \ {groupId}

\* The result of parseFilterParams: the node, the deepest nesting reached,
\* or the error thrown; in both cases the query parameters populated so far
\* in the caller's queryParams object and the content of the caller's
\* parentGroupIds set, the two objects the recursive calls share. restored
\* tells that every call that has returned normally so far left in
\* parentGroupIds what it found there.
Parsed(node, queryParams, depth, parentGroupIds, restored) ==
    [error |-> "", node |-> node, queryParams |-> queryParams, depth |-> depth,
     parentGroupIds |-> parentGroupIds, restored |-> restored]
ParseError(msg, queryParams, depth, parentGroupIds, restored) ==
    [error |-> msg, node |-> NoNode, queryParams |-> queryParams, depth |-> depth,
     parentGroupIds |-> parentGroupIds, restored |-> restored]

Max(a, b) == IF a > b THEN a ELSE b

\* The value of F for x, x being evaluated once.
With(x, F(_)) == CHOOSE r \in {F(y) : y \in {x}} : TRUE

RECURSIVE parseFilterParams(_, _, _, _, _, _)
RECURSIVE CollectMembers(_, _, _, _, _, _)

\* The two loops of parseFilterParams: over Object.keys(urlQuery) (k) and
\* over the values of the parameter (v); st holds members, queryParams,
\* nextQueryParamId and the content of parentGroupIds.
CollectMembers(baseContainer, groupId, uq, k, v, state) ==
    With(state, LAMBDA st :
    IF st.error # "" \/ k > Len(uq) THEN st
    ELSE IF uq[k].group # groupId \/ v > Len(uq[k].vals)
      THEN CollectMembers(baseContainer, groupId, uq, k + 1, 1, st)
    ELSE
    LET param == uq[k]
        valExpr == param.vals[v]
        fail(msg) == [st EXCEPT !.error = msg]
        next(st2) ==
            CollectMembers(baseContainer, groupId, uq, k, v + 1, st2)
        nestedOf(container, nestedGroupId, junc) ==
            parseFilterParams(container, nestedGroupId, junc, uq, st.queryParams,
                              withParent(st.parentGroupIds, groupId))
    IN
    IF param.junction # "" THEN
        IF nestedJunc(param.junction) = ""
          THEN fail("Invalid junction type in filter group.")
          ELSE With(nestedOf(baseContainer, valExpr, nestedJunc(param.junction)),
                 LAMBDA nestedGroup :
                   IF nestedGroup.error # ""
                     THEN [st EXCEPT !.error = nestedGroup.error,
                                     !.queryParams = nestedGroup.queryParams,
                                     !.parentGroupIds = nestedGroup.parentGroupIds,
                                     !.restored = @ /\ nestedGroup.restored,
                                     !.depth = Max(@, nestedGroup.depth)]
                     ELSE next([st EXCEPT
                            !.members = IF nestedGroup.node # NoNode
                                          THEN Append(@, nestedGroup.node) ELSE @,
                            !.queryParams = nestedGroup.queryParams,
                            !.parentGroupIds =
                                withoutParent(nestedGroup.parentGroupIds, groupId),
                            !.restored = @ /\ nestedGroup.restored,
                            !.depth = Max(@, nestedGroup.depth)]))
    ELSE
    With(parseQueryPropRef(baseContainer, param.prop, FILTER_OPS_MAPPING,
                           LengthOf(valExpr) > 0),
      LAMBDA p :
    LET hasValue == LengthOf(valExpr) > 0 IN
    IF p.error # "" THEN fail(p.error)
    ELSE IF ~hasValue THEN
        IF p.requiresValue THEN fail("filter requires a value.")
        ELSE next([st EXCEPT !.members = Append(@, Test(p.spec, NaN, "", <<>>))])
    ELSE IF ~p.propDesc.scalar THEN
        LET isCount == p.spec.op \in {"count", "!count"}
            valExprParts == SplitColon(valExpr)
            countVal == IF isCount THEN NumberOf(valExprParts[1]) ELSE NaN
            nestedGroupId ==
                IF isCount
                  THEN (IF Len(valExprParts) > 1 THEN valExprParts[2] ELSE "")
                  ELSE valExpr
        IN  IF isCount /\ Len(valExprParts) > 2
              THEN fail("Invalid \"count\" filter parameter value: more than 2 colon-separated values.")
            ELSE IF isCount /\ countVal = NaN
              THEN fail("Invalid \"count\" filter parameter value: the count is not an integer.")
            ELSE IF nestedGroupId = ""
              THEN next([st EXCEPT
                     !.members = Append(@, Test(p.spec, countVal, "", <<>>))])
            ELSE With(nestedOf(p.propDesc.nestedProperties, nestedGroupId, ":and"),
                   LAMBDA nestedGroup :
                     IF nestedGroup.error # ""
                       THEN [st EXCEPT !.error = nestedGroup.error,
                                     !.queryParams = nestedGroup.queryParams,
                                       !.parentGroupIds = nestedGroup.parentGroupIds,
                                       !.restored = @ /\ nestedGroup.restored,
                                       !.depth = Max(@, nestedGroup.depth)]
                       ELSE next([st EXCEPT
                              !.members =
                                 Append(@, Test(p.spec, countVal, "",
                                                IF nestedGroup.node # NoNode
                                                  THEN <<nestedGroup.node>> ELSE <<>>)),
                              !.queryParams = nestedGroup.queryParams,
                              !.parentGroupIds =
                                  withoutParent(nestedGroup.parentGroupIds, groupId),
                              !.restored = @ /\ nestedGroup.restored,
                              !.depth = Max(@, nestedGroup.depth)]))
    ELSE
        LET vals == IF p.multi THEN SplitPipe(valExpr) ELSE <<valExpr>>
            converted == [j \in 1..Len(vals) |-> valueToQueryParam(vals[j], p)]
            failed == {j \in 1..Len(vals) : converted[j].error # ""}
            filterParamValue ==
                IF p.multi THEN [j \in 1..Len(vals) |-> converted[j].res]
                           ELSE <<converted[1].res>>
            queryParamName == "p" \o groupId \o ToString(st.nextQueryParamId)
        IN  IF failed # {}
              THEN fail(converted[CHOOSE j \in failed :
                                    \A j2 \in failed : j <= j2].error)
              ELSE next([st EXCEPT
                     !.nextQueryParamId = @ + 1,
                     !.queryParams = (queryParamName :> filterParamValue) @@ @,
                     !.members = Append(@, Test(p.spec, NaN, queryParamName, <<>>))])))

\* parseFilterParams(baseContainer, groupId, junc, urlQuery, queryParams,
\* parentGroupIds)
parseFilterParams(baseContainer, groupId, junc, uq, queryParams, parentGroupIds) ==
    IF LengthOf(groupId) = 0
      THEN ParseError("Empty nested group id.", queryParams, 1, parentGroupIds, TRUE)
    ELSE IF circularReference(parentGroupIds, groupId)
      THEN ParseError("Circular filter group reference.", queryParams, 1,
                      parentGroupIds, TRUE)
    ELSE With(CollectMembers(baseContainer, groupId, uq, 1, 1,
                [error |-> "", members |-> <<>>, queryParams |-> queryParams,
                 nextQueryParamId |-> 0, depth |-> 0,
                 parentGroupIds |-> parentGroupIds, restored |-> TRUE]),
           LAMBDA st :
             IF st.error # ""
               THEN ParseError(st.error, st.queryParams, st.depth + 1,
                               st.parentGroupIds, st.restored)
               ELSE Parsed(groupNode(junc, st.members), st.queryParams, st.depth + 1,
                           st.parentGroupIds,
                           st.restored /\ st.parentGroupIds = parentGroupIds))

\* A URL query parameter whose name has no '$' (p, o, r): it belongs to no
\* filter group; its name is kept where a filter parameter keeps its
\* reference expression.
Plain(name, vals) == Param("", name, NoPropRef, vals)

\* urlQuery[name]: the values given for the name, in order; none when the
\* parameter is absent. A value given once is a string, a value given more
\* than once is an array.
Named(uq, name) ==
    LET at == {k \in 1..Len(uq) : uq[k].group = "" /\ uq[k].junction = name}
    IN  IF at = {} THEN <<>> ELSE uq[CHOOSE k \in at : TRUE].vals
IsArray(vals) == Len(vals) > 1
\* the truth value of urlQuery[name]: undefined and '' are false
Truthy(vals) == IsArray(vals) \/ (Len(vals) = 1 /\ vals[1] # "")

\* string.split(',') for the values used
SplitComma(v) ==
    CASE v = "status,price" -> <<"status", "price">>
      [] v = "status,price:desc" -> <<"status", "price:desc">>
      [] v = "0,20" -> <<"0", "20">>
      [] v = "100,20" -> <<"100", "20">>
      [] v = "5,5" -> <<"5", "5">>
      [] v = "a,b" -> <<"a", "b">>
      [] v = "1,2,3" -> <<"1", "2", "3">>
      [] v = "," -> <<"", "">>
      [] OTHER -> <<v>>
\* (Array.isArray(v) ? v.join(',') : v).split(',')
RECURSIVE SplitJoined(_)
SplitJoined(vals) ==
    IF vals = <<>> THEN <<>>
    ELSE SplitComma(Head(vals)) \o SplitJoined(Tail(vals))

\* An order element as parseQueryPropRef splits it: the trailing '!',
\* split(':') and split('.') for the elements used.
OrderRef(oElement) ==
    CASE oElement = "price:desc" -> PropRef(<<"price">>, <<"desc">>, FALSE)
      [] oElement = "price:min" -> PropRef(<<"price">>, <<"min">>, FALSE)
      [] oElement = "status:len:asc" -> PropRef(<<"status">>, <<"len", "asc">>, FALSE)
      [] OTHER -> PropRef(<<oElement>>, <<>>, FALSE)

\* The query specification parseSearchQuery returns: has names the elements
\* it contains; or the error thrown, with the query parameters populated
\* in the caller's queryParams object until then. parsed is what
\* parseFilterParams left behind: the depth reached, the content of the
\* set of parent group ids and whether the calls restored it.
QuerySpec(has, props, group, order, range, queryParams, parsed) ==
    [error |-> "", has |-> has, props |-> props, group |-> group,
     filter |-> IF group # NoNode THEN group.members ELSE <<>>,
     order |-> order, range |-> range, queryParams |-> queryParams,
     depth |-> parsed.depth, parentGroupIds |-> parsed.parentGroupIds,
     restored |-> parsed.restored]
QueryError(msg, queryParams, parsed) ==
    [error |-> msg, has |-> {}, props |-> <<>>, group |-> NoNode,
     filter |-> <<>>, order |-> <<>>, range |-> <<>>,
     queryParams |-> queryParams,
     depth |-> parsed.depth, parentGroupIds |-> parsed.parentGroupIds,
     restored |-> parsed.restored]

\* Faulty variant: a repeated range parameter is read as its first value.
rangeOfFirst(r) == [error |-> "", range |-> [j \in 1..Len(SplitComma(r[1])) |-> NumberOf(SplitComma(r[1])[j])]]

\* the range part: urlQuery.r.split(',').map(v => Number(v)), or the error
\* thrown for an array
rangeOf(r) ==
    IF IsArray(r)
      THEN [error |-> "More than one range specification.", range |-> <<>>]
      ELSE [error |-> "",
            range |-> [j \in 1..Len(SplitComma(r[1])) |->
                         NumberOf(SplitComma(r[1])[j])]]

\* Faulty variant: every part is parsed whatever queryParts names.
includesAlways(parts, part) == TRUE

\* queryParts.indexOf(part) >= 0
includes(parts, part) == part \in parts

\* parseSearchQuery(recordTypeDesc, urlQuery, queryParts, queryParams): the
\* parts p, f, o and r in this order, each only when queryParts names it;
\* the filter is the root group 'f' with the junction ':and' and no parent
\* group, querySpec.filter the group's members, or an empty array.
parseSearchQuery(recordTypeDesc, uq, parts) ==
    LET p == Named(uq, "p")
        o == Named(uq, "o")
        r == Named(uq, "r")
        hasP == includes(parts, "p") /\ Truthy(p)
        hasF == includes(parts, "f")
        hasO == includes(parts, "o") /\ Truthy(o)
        hasR == includes(parts, "r") /\ Truthy(r)
        oElements == SplitJoined(o)
        orderPreds == [j \in 1..Len(oElements) |->
                         parseQueryPropRef(recordTypeDesc, OrderRef(oElements[j]),
                                           ORDER_OPS_MAPPING, FALSE)]
        orderFailed == {j \in 1..Len(oElements) : orderPreds[j].error # ""}
    IN
    With(IF hasF THEN parseFilterParams(recordTypeDesc, "f", ":and", uq, <<>>, {})
                 ELSE Parsed(NoNode, <<>>, 0, {}, TRUE),
      LAMBDA filter :
        IF filter.error # ""
          THEN QueryError(filter.error, filter.queryParams, filter)
        ELSE IF hasO /\ orderFailed # {}
          THEN QueryError(orderPreds[CHOOSE j \in orderFailed :
                                       \A j2 \in orderFailed : j <= j2].error,
                          filter.queryParams, filter)
        ELSE IF hasR /\ rangeOf(r).error # ""
          THEN QueryError(rangeOf(r).error, filter.queryParams, filter)
        ELSE QuerySpec({x \in {"p"} : hasP} \cup {x \in {"f"} : hasF}
                         \cup {x \in {"o"} : hasO} \cup {x \in {"r"} : hasR},
                       IF hasP THEN SplitJoined(p) ELSE <<>>,
                       filter.node,
                       IF hasO THEN [j \in 1..Len(oElements) |-> orderPreds[j].spec]
                               ELSE <<>>,
                       IF hasR THEN rangeOf(r).range ELSE <<>>,
                       filter.queryParams, filter))

\* The URL query parameters the parser is given.
\* (1) Filter groups: up to MaxParams filter parameters with different
\* names, over the groups f, a and b.
GroupIds == {"f", "a", "b"}
FilterJunctions == {":or"}
FilterProps == {PropRef(<<"items">>, <<>>, FALSE), PropRef(<<"status">>, <<>>, FALSE)}
FilterValues == {"", "a", "b"}
FilterParams ==
    { Param(g, j, NoPropRef, <<valExpr>>) :
        g \in GroupIds, j \in FilterJunctions, valExpr \in FilterValues }
    \cup { Param(g, "", p, <<valExpr>>) :
             g \in GroupIds, p \in FilterProps, valExpr \in FilterValues }
ParamName(param) == <<param.group, param.junction, param.prop>>
DistinctNames(uq) ==
    \A j, k \in 1..Len(uq) : j # k => ParamName(uq[j]) # ParamName(uq[k])
GroupQueries ==
    { uq \in UNION {[1..n -> FilterParams] : n \in 0..MaxParams} : DistinctNames(uq) }

\* (2) Tests of the root group: up to MaxLeaves parameters f$<expr>=<value>
\* with different names, with and without an operator, a transformation,
\* a reference and a value.
LeafProps ==
    { PropRef(<<"status">>, <<>>, FALSE), PropRef(<<"status">>, <<>>, TRUE),
      PropRef(<<"status">>, <<"pre">>, FALSE),
      PropRef(<<"price">>, <<"min">>, FALSE), PropRef(<<"price">>, <<"max">>, TRUE),
      PropRef(<<"price">>, <<"alt">>, FALSE),
      PropRef(<<"items">>, <<>>, FALSE), PropRef(<<"items">>, <<"count">>, FALSE),
      PropRef(<<"accountRef">>, <<>>, FALSE),
      PropRef(<<"accountRef", "lastName">>, <<>>, FALSE),
      PropRef(<<"accountRef", "lastName">>, <<"len", "min">>, FALSE) }
LeafValues == {"", "5", "abc", "Account#5", "5|10"}
LeafParams == { Param("f", "", p, <<valExpr>>) : p \in LeafProps, valExpr \in LeafValues }
LeafQueries ==
    { uq \in UNION {[1..n -> LeafParams] : n \in 0..MaxLeaves} : DistinctNames(uq) }

\* (3) The queries of the documentation, and a group with more than ten
\* tests next to a group whose id ends with a digit.
StatusPriceRange ==
    << Param("f", "", PropRef(<<"status">>, <<>>, FALSE), <<"PENDING">>),
       Param("f", "", PropRef(<<"price">>, <<"min">>, FALSE), <<"10">>),
       Param("f", "", PropRef(<<"price">>, <<"max">>, TRUE), <<"100">>) >>
ManyValues == [j \in 1..MaxSequence + 1 |-> "a"]
ManyTests ==
    << Param("f", "", PropRef(<<"status">>, <<>>, FALSE), ManyValues),
       Param("f", ":or", NoPropRef, <<"f1">>),
       Param("f1", "", PropRef(<<"status">>, <<>>, FALSE), <<"b">>) >>
DocumentedQueries == {StatusPriceRange, ManyTests}

\* (4) The parameters p, o and r, given once, more than once or not at all,
\* next to at most one filter parameter.
PValues == {<<"">>, <<"status,price">>, <<"status", "price">>}
OValues == {<<"">>, <<"status">>, <<"status,price:desc">>, <<"price:min">>,
            <<"status", "price:desc">>}
RValues == {<<"">>, <<"0,20">>, <<"100,20">>, <<"5">>, <<"a,b">>, <<"1,2,3">>,
            <<"0,20", "5,5">>, <<"5,5", "0,20">>, <<"0,20", "0,20">>}
OneOf(name, values) == {<<>>} \cup {<<Plain(name, vals)>> : vals \in values}
OneFilter ==
    {<<>>} \cup { <<Param("f", "", PropRef(<<"status">>, parts, FALSE), <<valExpr>>)>> :
                    parts \in {<<>>, <<"min">>}, valExpr \in {"", "a"} }
PlainQueries ==
    { p \o f \o o \o r :
        p \in OneOf("p", PValues), f \in OneFilter,
        o \in OneOf("o", OValues), r \in OneOf("r", RValues) }

\* queryParts: the handlers pass 'pfor' and 'f'
QueryParts == SUBSET {"p", "f", "o", "r"}
QueryInputs ==
    ((GroupQueries \cup LeafQueries) \X {{"f"}})
    \cup (DocumentedQueries \X {{"f"}, {"p", "f", "o", "r"}})
    \cup (PlainQueries \X QueryParts)

InitQuery ==
    /\ propRef = <<>>
    /\ pred = <<>>
    /\ \E q \in QueryInputs : urlQuery = q[1] /\ queryParts = q[2]
    /\ querySpec = <<>>
    /\ versionCalls = <<>>
    /\ versionInfo = <<>>
    /\ response = NoResponse
    /\ handler = GenericHandler
    /\ call = Call("GET", NoHeaders)
    /\ phases = <<>>
    /\ listeners = [ev \in Events |-> <<>>]
    /\ complete = FALSE
    /\ txSet = FALSE
    /\ txState = "none"
    /\ pc = "query"
    /\ idx = 1
    /\ kinds = <<>>
    /\ result = Undefined
    /\ err = Undefined
    /\ acquired = 0
    /\ trace = <<>>
    /\ outcome = [state |-> "pending", val |-> Undefined]
    /\ reply = NoReply

\* parseSearchQuery(recordTypeDesc, urlQuery, queryParts, queryParams)
ParseSearchQuery ==
    /\ pc = "query"
    /\ querySpec' = parseSearchQuery("Order", urlQuery, queryParts)
    /\ pc' = "parsed"
    /\ UNCHANGED <<versionVars, propRef, pred, urlQuery, queryParts, reply, response, handler, call,
                   phases, listeners, complete, txSet, txState, idx, kinds,
                   result, err, acquired, trace, outcome>>

NextQuery == ParseSearchQuery

SpecQuery == InitQuery /\ [][NextQuery]_vars

\* --------------------------------------------------- version information
\* A call as _getRecordVersionInfo and _processConditionalRequest read it:
\* call.apiVersion, call.actor (NoActor when the call is not authenticated,
\* else the actor's id) and the version of the record, or of the record
\* collections, the call reads.
NoActor == <<"no actor">>
ApiVersions == {"1", "2", "1:7"}
Actors == {NoActor, <<"7">>, <<"*">>, <<"7:7">>}
Versions == 1..MaxVersion
VersionCall(apiVersion, actor, version) ==
    [apiVersion |-> apiVersion, actor |-> actor, version |-> version]

\* String(call.actor ? call.actor.id : '*')
actorId(c) == IF c.actor # NoActor THEN c.actor[1] ELSE "*"

\* '"' + call.apiVersion + ':' + String(call.actor ? call.actor.id : '*')
\*  + ':' + rec[videsc.versionPropName] + '"'
etagOf(c) ==
    "\"" \o c.apiVersion \o ":" \o actorId(c) \o ":" \o ToString(c.version) \o "\""

InitVersion ==
    /\ propRef = <<>>
    /\ pred = <<>>
    /\ urlQuery = <<>>
    /\ queryParts = {}
    /\ querySpec = <<>>
    /\ versionCalls \in [1..2 -> [apiVersion : ApiVersions, actor : Actors,
                                  version : Versions]]
    /\ versionInfo = <<>>
    /\ response = NoResponse
    /\ handler = GenericHandler
    /\ call = Call("GET", NoHeaders)
    /\ phases = <<>>
    /\ listeners = [ev \in Events |-> <<>>]
    /\ complete = FALSE
    /\ txSet = FALSE
    /\ txState = "none"
    /\ pc = "version"
    /\ idx = 1
    /\ kinds = <<>>
    /\ result = Undefined
    /\ err = Undefined
    /\ acquired = 0
    /\ trace = <<>>
    /\ outcome = [state |-> "pending", val |-> Undefined]
    /\ reply = NoReply

\* _getRecordVersionInfo(call, rec) for each of the two calls
GetRecordVersionInfo ==
    /\ pc = "version"
    /\ versionInfo' = [j \in 1..2 |-> [etag |-> etagOf(versionCalls[j])]]
    /\ pc' = "versioned"
    /\ UNCHANGED <<parserVars, versionCalls, reply, response, handler, call, phases,
                   listeners, complete, txSet, txState, idx, kinds, result, err,
                   acquired, trace, outcome>>

NextVersion == GetRecordVersionInfo

SpecVersion == InitVersion /\ [][NextVersion]_vars

\* ------------------------------------- the collection handlers' methods
\* CollectionResourceHandler.GET, POST and _BULK_PATCH from the call to the
\* response: the checks made at once, the steps queued ahead of the
\* transaction, the transaction, the 'complete' hook and the response.
CollectionVerbs == {"SEARCH", "POST", "BULKPATCH"}

\* A response with status 400; the one with the error code X2-RSRC-400-9
\* ('Explicit filter is required.') is numbered 409 to tell it apart.
Resp400 == 400
Resp400_9 == 409
HookResult(j) == 30 + j
CompleteResult == 40
CompleteError == 19

\* the call of a collection handler: entity tells whether call.entity is set
CollectionCall(method, hd, entity) ==
    [method |-> method, headers |-> hd, etag |-> 1, lastModified |-> 2,
     entity |-> entity]

\* the requested URL's query
CollectionQueries ==
    { <<>>,
      <<Plain("p", <<"status">>)>>,
      <<Param("f", "", PropRef(<<"status">>, <<>>, FALSE), <<"a">>)>>,
      <<Param("f", ":or", NoPropRef, <<"a">>)>>,
      <<Param("f", "", PropRef(<<"nope">>, <<>>, FALSE), <<"a">>)>> }

\* the query parts the handler method asks the parser for; POST parses none
MaskOf(verb) ==
    CASE verb = "SEARCH" -> {"p", "f", "o", "r"}
      [] verb = "BULKPATCH" -> {"f"}
      [] OTHER -> {}

\* Faulty variant: an empty filter is accepted.
noFilterNever(spec) == FALSE

\* !txCtx.querySpec.filter || (txCtx.querySpec.filter.length === 0)
noFilter(spec) == Len(spec.filter) = 0

\* The steps a handler method queues on the response promise ahead of the
\* transaction: 'prepare' hooks and steps of its own that build or validate
\* something and may reject. Each is queued as .then(() => ...): the value
\* the step before resolved with is dropped and txCtx.complete is not
\* looked at.
\* GET: prepareSearch, buildFetch
StepsSEARCH(h) == Opt(h.hooks, "prepare") \o <<"build">>

\* POST: prepareCreateSpec, normalizeRecord, the parent record's query
\* specification, prepareCreate, the immediate uplink's value
StepsPOST(h) ==
    Opt(h.hooks, "prepare") \o <<"build">> \o Opt(h.opt, "build")
    \o Opt(h.hooks, "prepare") \o Opt(h.opt, "build")

\* _BULK_PATCH: prepareBulkUpdateSpec, _buildPatch, prepareBulkUpdate,
\* buildUpdate
StepsBULKPATCH(h) ==
    Opt(h.hooks, "prepare") \o <<"build">> \o Opt(h.hooks, "prepare")
    \o <<"build">>

HandlerSteps(h) ==
    CASE h.verb = "SEARCH" -> StepsSEARCH(h)
      [] h.verb = "POST" -> StepsPOST(h)
      [] h.verb = "BULKPATCH" -> StepsBULKPATCH(h)

\* What step j may do: a hook resolves, calls makeComplete() and resolves,
\* throws, rejects, or calls makeComplete() and rejects; a step of the
\* handler resolves or rejects with a 400.
StepBehaviours(type, j) ==
    IF type = "prepare"
      THEN { Does("resolve", HookResult(j)), Does("complete", HookResult(j)),
             Does("throw", PhaseError(j)), Does("reject", Resp404),
             Does("completeReject", PhaseError(j)) }
      ELSE { Does("resolve", Undefined), Does("reject", Resp400) }

\* Faulty variant: the 'complete' hook is called whatever the context.
completeNeverSkipped(c) == FALSE

\* txCtx.complete ? result : this.completeSearch(undefined, txCtx, result)
completeSkipped(c) == c

\* the response promise is rejected when the 'complete' hook is reached
chainRejected == pc = "rejected" \/ outcome.state = "rejected"
\* the value the response promise is settled with at that point
chainValue == IF pc = "rejected" THEN err ELSE outcome.val

\* The status of the response created around the result of a call: GET and
\* _BULK_PATCH pass a response on and wrap anything else in a 200; POST
\* passes the result on when the context is complete and creates a 201
\* otherwise.
created(h, c, v) ==
    IF h.verb = "POST" THEN (IF c THEN 0 ELSE 201)
    ELSE IF isResponse(v) THEN 0 ELSE 200

InitCollection ==
    /\ handler \in [verb : CollectionVerbs, hooks : BOOLEAN,
                     versioned : BOOLEAN, opt : BOOLEAN]
    /\ propRef = <<>>
    /\ pred = <<>>
    /\ urlQuery \in CollectionQueries
    /\ queryParts = MaskOf(handler.verb)
    /\ querySpec = <<>>
    /\ versionCalls = <<>>
    /\ versionInfo = <<>>
    /\ response = NoResponse
    /\ call \in {CollectionCall(MethodOf(handler.verb), hd, entity) :
                   hd \in {NoHeaders,
                           Headers(Tags(<<Strong(2)>>), AbsentDate,
                                   AbsentTags, AbsentDate)},
                   entity \in BOOLEAN}
    /\ phases = <<>>
    /\ listeners = [ev \in Events |-> <<>>]
    /\ complete = FALSE
    /\ txSet = FALSE
    /\ txState = "none"
    /\ pc = "called"
    /\ idx = 1
    /\ kinds = <<>>
    /\ result = Undefined
    /\ err = Undefined
    /\ acquired = 0
    /\ trace = <<>>
    /\ outcome = [state |-> "pending", val |-> Undefined]
    /\ reply = NoReply

\* The synchronous head of the handler method: POST and _BULK_PATCH return
\* a 400 when the call has no entity; GET and _BULK_PATCH parse the query
\* and return a 400 on a syntax error; _BULK_PATCH returns a 400 when the
\* filter parsed is empty, before the uplink filters are added.
ParseCall ==
    /\ pc = "called"
    /\ IF handler.verb # "SEARCH" /\ ~call.entity
         THEN /\ reply' = Reply("resolved", Resp400, 0)
              /\ pc' = "replied"
              /\ UNCHANGED querySpec
         ELSE IF handler.verb = "POST"
           THEN /\ pc' = "prepare"
                /\ UNCHANGED <<querySpec, reply>>
         ELSE /\ querySpec' = parseSearchQuery("Order", urlQuery, queryParts)
              /\ IF querySpec'.error # ""
                   THEN /\ reply' = Reply("resolved", Resp400, 0)
                        /\ pc' = "replied"
                   ELSE IF handler.verb = "BULKPATCH" /\ noFilter(querySpec')
                     THEN /\ reply' = Reply("resolved", Resp400_9, 0)
                          /\ pc' = "replied"
                     ELSE /\ pc' = "prepare"
                          /\ UNCHANGED reply
    /\ UNCHANGED <<versionVars, propRef, pred, urlQuery, queryParts, response,
                   handler, call, phases, listeners, complete, txSet, txState,
                   idx, kinds, result, err, acquired, trace, outcome>>

\* One step queued ahead of the transaction runs and settles.
PrepareStep ==
    /\ pc = "prepare"
    /\ idx <= Len(HandlerSteps(handler))
    /\ \E b \in StepBehaviours(HandlerSteps(handler)[idx], idx) :
         /\ trace' = Append(trace, Ev(HandlerSteps(handler)[idx], idx, b.val, b.kind))
         /\ complete' = (complete \/ b.kind \in {"complete", "completeReject"})
         /\ IF b.kind \in {"resolve", "complete"}
              THEN /\ idx' = idx + 1
                   /\ UNCHANGED <<pc, err>>
              ELSE /\ err' = b.val
                   /\ pc' = "rejected"
                   /\ UNCHANGED idx
    /\ UNCHANGED <<parserVars, versionVars, reply, response, handler, call,
                   phases, listeners, txSet, txState, kinds, result, acquired,
                   outcome>>

\* The last step queued ahead of the 'complete' hook assembles the
\* transaction phases and calls _executeTransaction.
ExecuteTransaction ==
    /\ pc = "prepare"
    /\ idx > Len(HandlerSteps(handler))
    /\ phases' = HandlerPhases(handler, call)
    /\ idx' = 1
    /\ pc' = "init"
    /\ UNCHANGED <<parserVars, versionVars, reply, response, handler, call,
                   listeners, complete, txSet, txState, kinds, result, err,
                   acquired, trace, outcome>>

\* The 'complete' hook, when the extension has one: on fulfilment it is
\* called unless the context is complete and the chain goes on with what
\* it returns; on rejection it is called and the chain is rejected with
\* what it returns. A hook that throws rejects the chain.
CompleteHook ==
    /\ pc \in {"done", "rejected"}
    /\ IF ~handler.hooks \/ (~chainRejected /\ completeSkipped(complete))
         THEN /\ IF chainRejected
                   THEN err' = chainValue /\ pc' = "failed" /\ UNCHANGED result
                   ELSE result' = chainValue /\ pc' = "completed" /\ UNCHANGED err
              /\ UNCHANGED trace
         ELSE \E b \in {Does("resolve", CompleteResult), Does("throw", CompleteError)} :
              /\ trace' = Append(trace, Ev("complete", IF chainRejected THEN 1 ELSE 0,
                                           chainValue, b.kind))
              /\ IF chainRejected \/ b.kind = "throw"
                   THEN err' = b.val /\ pc' = "failed" /\ UNCHANGED result
                   ELSE result' = b.val /\ pc' = "completed" /\ UNCHANGED err
    /\ UNCHANGED <<parserVars, versionVars, reply, response, handler, call,
                   phases, listeners, complete, txSet, txState, idx, kinds,
                   acquired, outcome>>

\* The response is built from the result; a rejection is passed on.
BuildResponse ==
    /\ pc \in {"completed", "failed"}
    /\ reply' = IF pc = "failed"
                  THEN Reply("rejected", err, 0)
                  ELSE Reply("resolved", result, created(handler, complete, result))
    /\ pc' = "replied"
    /\ UNCHANGED <<parserVars, versionVars, response, handler, call, phases,
                   listeners, complete, txSet, txState, idx, kinds, result,
                   err, acquired, trace, outcome>>

NextCollection ==
    \/ ParseCall
    \/ PrepareStep
    \/ ExecuteTransaction
    \/ TxStep
    \/ CompleteHook
    \/ BuildResponse

SpecCollection == InitCollection /\ [][NextCollection]_vars

\* ------------------------------------------------------- reading the trace
Positions(op) == {j \in 1..Len(trace) : trace[j].op = op}
Count(op) == Cardinality(Positions(op))
released == Count("release")
settled == outcome.state # "pending"
\* commit calls made by the orchestrator itself (not from inside a phase)
OwnCommits == {j \in Positions("commit") : trace[j].i = 0}
FailKinds == {"throw", "reject", "completeReject", "commitReject"}
PhaseCalls == SelectSeq(trace, LAMBDA ev : ev.op = "phase")
Ops(tr) == [j \in 1..Len(tr) |-> tr[j].op]
\* the calls made after the last phase was invoked
AfterLastPhase ==
    LET last == CHOOSE j \in Positions("phase") :
                  \A k \in Positions("phase") : k <= j
    IN  SubSeq(trace, last + 1, Len(trace))
ListenerCalls(ev) == [j \in 1..Len(listeners[ev]) |-> "listener"]
txCreated == Count("start") > 0

\* --------------------------------------------------------------------- C1
AllResolved == outcome.state = "resolved"
PhaseThrew == kind = "throw"
PhaseRejected == kind = "reject"
StartFailed == err = ErrStart
CommitFailed == err = ErrCommit /\ OwnCommits # {}

\* C1: when the promise returned by _executeTransaction has settled in a run
\* where (a) every phase resolved, (b) a phase threw synchronously, (c) a
\* phase returned a rejected promise, (d) start() rejected or (e) commit
\* rejected after all phases resolved, releaseConnection has been called
\* exactly once.
C1_ReleasedExactlyOnce ==
    (settled /\ (AllResolved \/ PhaseThrew \/ PhaseRejected \/ StartFailed
                 \/ CommitFailed))
        => released = 1

C1_Witness ==
    /\ settled
    /\ CommitFailed
    /\ Len(phases) = 3
    /\ Len(kinds) = 3
    /\ released = 1

\* --------------------------------------------------------------------- C2
\* C2 as stated: whenever a phase marked the context complete, the run ends
\* with that phase as the last one invoked, a commit carrying the last
\* produced result and no rollback.
C2_CompleteAlwaysCommits ==
    (settled /\ complete) =>
        /\ kind = "complete"
        /\ Cardinality(OwnCommits) = 1
        /\ \A c \in OwnCommits : trace[c].arg = result
        /\ Count("rollback") = 0

\* C2 (amended): once a phase has marked the context complete and resolved,
\* no further phase is invoked and the chain goes on to commit with the
\* result of that phase as the payload; a rollback follows only when that
\* commit itself rejects.
C2_CompleteResolvedCommits ==
    /\ \A j \in 1..Len(kinds) : kinds[j].kind = "complete" => j = Len(kinds)
    /\ (kind = "complete" /\ pc \in {"committing", "catch", "rollingBack", "done",
               "called", "prepare", "rejected", "completed", "failed", "replied"}) =>
          /\ Cardinality(OwnCommits) = 1
          /\ \A c \in OwnCommits :
                /\ trace[c].arg = val
                /\ \A r \in Positions("rollback") : c < r
          /\ Count("rollback") > 0 => err = ErrCommit
    /\ (kind = "complete" /\ pc = "done" /\ err = Undefined) =>
          outcome = [state |-> "resolved", val |-> val]

C2_Witness ==
    /\ pc = "done"
    /\ kind = "complete"
    /\ Len(kinds) = 1
    /\ Len(phases) = 3
    /\ outcome = [state |-> "resolved", val |-> PhaseResult(1)]

\* --------------------------------------------------------------------- C3
\* C3: when a phase throws or its promise rejects, no later phase is invoked,
\* the orchestrator never calls commit, the returned promise rejects, and the
\* transaction is rolled back unless the phase ended it itself; a thrown
\* error and a rejected promise are followed by the same calls: rollback,
\* release, then the rollback listeners.
C3_PhaseFailureRollsBack ==
    /\ \A j \in 1..Len(kinds) : kinds[j].kind \in FailKinds => j = Len(kinds)
    /\ kind \in FailKinds => OwnCommits = {}
    /\ (kind \in FailKinds /\ pc = "done") =>
          /\ outcome.state = "rejected"
          /\ kind # "commitReject" =>
                Ops(AfterLastPhase) =
                    <<"rollback", "release", "emit">> \o ListenerCalls("rollback")
          /\ Count("rollback") = 0 => kind = "commitReject"

C3_Witness ==
    /\ pc = "done"
    /\ kind = "throw"
    /\ Len(kinds) = 2
    /\ Len(phases) = 3
    /\ Count("rollback") = 1
    /\ outcome.state = "rejected"

\* --------------------------------------------------------------------- C4
\* C4: whenever a run fails, the returned promise rejects with the original
\* error (the first rejection of the chain), also when the rollback fails.
C4_OriginalErrorPropagates ==
    outcome.state = "rejected" => outcome.val = err

\* --------------------------------------------------------------------- C5
\* C5 as stated: on every run exactly one listener group has been fired,
\* once, after the release of the connection, when the promise settles.
C5_OneListenerGroupPerRun ==
    settled =>
        /\ Count("emit") = 1
        /\ \A j \in Positions("emit") : \E r \in Positions("release") : r < j

\* C5 (amended): on every run in which the transaction object was created,
\* exactly one of the two listener groups is fired, exactly once and after
\* the connection was released: 'commit' when the run resolves, 'rollback'
\* when it rejects, each listener of the group being called once; on a run
\* that fails before the transaction object exists no listener is fired.
C5_OneListenerGroupOnceTxCreated ==
    /\ Count("emit") <= 1
    /\ \A j \in Positions("emit") : \E r \in Positions("release") : r < j
    /\ settled => Count("emit") = (IF txCreated THEN 1 ELSE 0)
    /\ \A j \in Positions("emit") :
          /\ settled
          /\ trace[j].e = (IF outcome.state = "resolved" THEN "commit"
                                                         ELSE "rollback")
          /\ Count("listener") = Len(listeners[trace[j].e])
          /\ \A k \in Positions("listener") :
                k > j /\ trace[k].e = trace[j].e /\ trace[k].i = k - j

C5_Witness ==
    /\ settled
    /\ txCreated
    /\ outcome.state = "rejected"
    /\ Count("emit") = 1
    /\ Count("listener") = 2

\* --------------------------------------------------------------------- C6
\* C6: 'commit' listeners are called only right after the transaction was
\* committed, 'rollback' listeners only right after a rollback of the
\* transaction (successful or failed): never for a transaction that was
\* committed or that never started.
C6_ListenersMatchTransactionEnd ==
    \A j \in Positions("emit") :
        /\ trace[j].e = "commit" => txState = "committed"
        /\ trace[j].e = "rollback" =>
              /\ \E r \in Positions("rollback") : r < j
              /\ txState \in {"rolledBack", "failed"}

\* --------------------------------------------------------------------- C7
\* C7: when the returned promise settles, the number of releaseConnection
\* calls equals the number of connections acquired.
C7_ReleasedEqualsAcquired ==
    settled => released = acquired

\* --------------------------------------------------------------------- C8
\* C8: phases are invoked one at a time in list order, none before start()
\* resolved; each receives the resolved result of the previous phase; after
\* the last phase the transaction is committed with the final phase's result
\* and the run resolves with what commit resolves to.
C8_PhasesInOrderThenCommit ==
    /\ \A j \in 1..Len(PhaseCalls) :
          /\ PhaseCalls[j].i = j
          /\ PhaseCalls[j].arg = (IF j = 1 THEN Undefined ELSE kinds[j - 1].val)
    /\ Count("phase") > 0 => (Count("start") = 1 /\ txState \notin {"none", "new"})
    /\ pc \in {"phase", "phaseCommit"} => idx = Len(kinds)
    /\ \A c \in OwnCommits :
          /\ \A p \in Positions("phase") : p < c
          /\ trace[c].arg = val
          /\ ~complete => Len(kinds) = Len(phases)
    /\ outcome.state = "resolved" =>
          \E c \in OwnCommits : outcome.val = trace[c].arg

C8_Witness ==
    /\ pc = "done"
    /\ ~complete
    /\ Len(PhaseCalls) = 3
    /\ outcome = [state |-> "resolved", val |-> PhaseResult(3)]

\* --------------------------------------------------------------------- C9
\* C9: nothing is retried within a run: getConnection, start, commit and
\* rollback are each called at most once and each phase at most once; commit
\* is never called after a failure and rollback never after a commit that
\* succeeded.
C9_NoRetries ==
    /\ Count("getConnection") <= 1
    /\ Count("start") <= 1
    /\ Count("commit") <= 1
    /\ Count("rollback") <= 1
    /\ \A a, b \in Positions("phase") : trace[a].i = trace[b].i => a = b
    /\ pc \in {"committing", "phaseCommit"} => err = Undefined
    /\ \A c \in Positions("commit"), r \in Positions("rollback") :
          c < r /\ err = ErrCommit
    /\ txState = "committed" => Count("rollback") = 0

C9_Witness ==
    /\ pc = "done"
    /\ Count("commit") = 1
    /\ Count("rollback") = 1
    /\ Count("phase") = 2
    /\ err = ErrCommit

\* -------------------------------------------------------------------- C10
PrecondTypes == {"precond", "precondSync", "precondPATCH"}
\* the j-th invoked phase evaluated the preconditions to a 304 or a 412
Produced(j) ==
    /\ phases[PhaseCalls[j].i] \in PrecondTypes
    /\ kinds[j].val \in {Resp304, Resp412}
    /\ (j < Len(kinds) \/ pc \notin {"phase"})

\* C10: in every verb handler a 304 or 412 of the precondition evaluator
\* inside the transaction resolves its phase with the complete flag set, is
\* never a rejection, and the transaction is committed, not rolled back.
C10_PreconditionResponseCommits ==
    \A j \in 1..Len(kinds) :
        Produced(j) =>
            /\ kinds[j].kind = "complete"
            /\ complete
            /\ pc = "done" => OwnCommits # {}
            /\ Count("rollback") > 0 => err = ErrCommit
            /\ (pc = "done" /\ err = Undefined) =>
                  outcome = [state |-> "resolved", val |-> kinds[j].val]

\* ------------------------------------------ claims about the evaluator
\* Reading of an evaluated call.
evaluated == pc = "evaluated"
hdrs == call.headers
IsDate(d) == d \notin {AbsentDate, NotADate}
\* An entity tag list matches the current ETag: '*', or one entry equal to
\* it, an entry with the W/ prefix counting only in the weak comparison.
HeaderMatches(hdr, etag, weakToo) ==
    \/ hdr.star
    \/ /\ etag # NoETag
       /\ \E j \in 1..Len(hdr.els) :
            hdr.els[j].tag = etag /\ (weakToo \/ ~hdr.els[j].weak)
\* If-Match and If-Unmodified-Since let the call through.
EarlierHold ==
    IF hdrs.ifMatch.present
      THEN HeaderMatches(hdrs.ifMatch, call.etag, FALSE)
      ELSE \/ ~IsDate(hdrs.ifUnmodifiedSince)
           \/ (call.lastModified # NoDate
               /\ call.lastModified <= hdrs.ifUnmodifiedSince)
WithoutUnmodifiedSince == [call EXCEPT !.headers.ifUnmodifiedSince = AbsentDate]
WithoutModifiedSince == [call EXCEPT !.headers.ifModifiedSince = AbsentDate]
Reevaluated(c) == evaluatePreconditions(c, c.etag, c.lastModified)

\* C11: when If-Match / If-Unmodified-Since let the call through and the
\* If-None-Match header matches the current ETag, the evaluator returns a 304
\* with the resource's ETag and Last-Modified headers for GET and HEAD, and a
\* 412 for any other method.
C11_IfNoneMatchMatching ==
    (/\ evaluated
     /\ EarlierHold
     /\ hdrs.ifNoneMatch.present
     /\ HeaderMatches(hdrs.ifNoneMatch, call.etag, TRUE))
    => IF call.method \in {"GET", "HEAD"}
         THEN /\ response.status = 304
              /\ response.etag = call.etag
              /\ response.lastModified = call.lastModified
         ELSE response.status = 412

\* a HEAD with a weak entry of If-None-Match matching got a 304 with both
\* headers
C11_Witness ==
    /\ evaluated
    /\ call.method = "HEAD"
    /\ hdrs.ifNoneMatch = Tags(<<Strong(2), Weak(1)>>)
    /\ call.etag = 1 /\ call.lastModified = 2
    /\ response = Response(304, 1, 2)

\* C12: the preconditions are evaluated in the order If-Match,
\* If-Unmodified-Since, If-None-Match, If-Modified-Since: a present If-Match
\* that does not match gives 412 whatever the method and the other headers;
\* with If-Match present If-Unmodified-Since has no effect; with If-None-Match
\* present If-Modified-Since has no effect; and a response is returned only
\* if some header could trigger it.
C12_FixedOrder ==
    evaluated =>
      /\ (hdrs.ifMatch.present
            /\ ~HeaderMatches(hdrs.ifMatch, call.etag, FALSE))
         => response.status = 412
      /\ hdrs.ifMatch.present => response = Reevaluated(WithoutUnmodifiedSince)
      /\ hdrs.ifNoneMatch.present => response = Reevaluated(WithoutModifiedSince)
      /\ response # NoResponse =>
           \/ hdrs.ifMatch.present
           \/ IsDate(hdrs.ifUnmodifiedSince)
           \/ hdrs.ifNoneMatch.present
           \/ (IsDate(hdrs.ifModifiedSince) /\ call.method \in {"GET", "HEAD"})

\* a GET whose If-Match matches while If-Unmodified-Since alone would have
\* failed and whose If-None-Match does not match while If-Modified-Since
\* alone would have given 304: no response
C12_Witness ==
    /\ evaluated
    /\ call.method = "GET"
    /\ call.etag = 1 /\ call.lastModified = 2
    /\ hdrs.ifMatch = Tags(<<Strong(1)>>)
    /\ hdrs.ifUnmodifiedSince = 1
    /\ hdrs.ifNoneMatch = Tags(<<Strong(2)>>)
    /\ hdrs.ifModifiedSince = 1
    /\ response = NoResponse

\* C13 as stated: with If-Match (and If-None-Match) absent, an
\* If-Unmodified-Since header gives 412 exactly when its date is parseable
\* and the resource's lastModified is later than it; a resource without
\* lastModified never gives 412.
C13_UnmodifiedSinceOnlyIfLater ==
    (/\ evaluated
     /\ ~hdrs.ifMatch.present
     /\ hdrs.ifUnmodifiedSince # AbsentDate
     /\ ~hdrs.ifNoneMatch.present)
    => (response.status = 412
          <=> /\ IsDate(hdrs.ifUnmodifiedSince)
              /\ call.lastModified # NoDate
              /\ call.lastModified > hdrs.ifUnmodifiedSince)

\* C13 amended: with If-Match (and If-None-Match) absent, an
\* If-Unmodified-Since header gives 412 exactly when its date is parseable
\* and the resource either has no lastModified or was modified later than
\* that date.
C13_UnmodifiedSinceLaterOrUnknown ==
    (/\ evaluated
     /\ ~hdrs.ifMatch.present
     /\ hdrs.ifUnmodifiedSince # AbsentDate
     /\ ~hdrs.ifNoneMatch.present)
    => (response.status = 412
          <=> /\ IsDate(hdrs.ifUnmodifiedSince)
              /\ (call.lastModified = NoDate
                  \/ call.lastModified > hdrs.ifUnmodifiedSince))

\* If-Unmodified-Since on a resource without lastModified gave 412
C13_Witness ==
    /\ evaluated
    /\ ~hdrs.ifMatch.present
    /\ ~hdrs.ifNoneMatch.present
    /\ hdrs.ifUnmodifiedSince = 2
    /\ call.lastModified = NoDate
    /\ response.status = 412

C15_NotModified304 ==
    (/\ evaluated
     /\ call.method \in {"GET", "HEAD"}
     /\ ~hdrs.ifNoneMatch.present
     /\ IsDate(hdrs.ifModifiedSince)
     /\ call.lastModified # NoDate
     /\ response.status # 412)
    => (response.status = 304 => call.lastModified <= hdrs.ifModifiedSince)

\* C16: an If-Unmodified-Since or If-Modified-Since header that is not a
\* date gives the response the call would get without the header.
C16_UnparseableDateIsAbsent ==
    evaluated =>
      /\ hdrs.ifUnmodifiedSince = NotADate
           => response = Reevaluated(WithoutUnmodifiedSince)
      /\ hdrs.ifModifiedSince = NotADate
           => response = Reevaluated(WithoutModifiedSince)
      /\ (/\ ~hdrs.ifMatch.present /\ ~hdrs.ifNoneMatch.present
          /\ ~IsDate(hdrs.ifUnmodifiedSince) /\ ~IsDate(hdrs.ifModifiedSince))
           => response = NoResponse

\* a GET with both date headers unparseable on a resource without
\* lastModified got no response
C16_Witness ==
    /\ evaluated
    /\ call.method = "GET"
    /\ ~hdrs.ifMatch.present /\ ~hdrs.ifNoneMatch.present
    /\ hdrs.ifUnmodifiedSince = NotADate
    /\ hdrs.ifModifiedSince = NotADate
    /\ call.lastModified = NoDate
    /\ response = NoResponse

\* C17: '*' always matches, also without a current ETag; otherwise the header
\* matches iff one of its entries equals the current ETag, If-Match comparing
\* strongly and If-None-Match also accepting a W/ entry; without a current
\* ETag a header other than '*' never matches. (If-Match fails with 412 iff it
\* does not match; reached alone, If-None-Match gives a response iff it
\* matches.)
C17_ETagMatching ==
    evaluated =>
      /\ (hdrs.ifMatch.present /\ ~hdrs.ifNoneMatch.present) =>
           (response.status = 412
              <=> ~HeaderMatches(hdrs.ifMatch, call.etag, FALSE))
      /\ (/\ ~hdrs.ifMatch.present
          /\ hdrs.ifUnmodifiedSince = AbsentDate
          /\ hdrs.ifNoneMatch.present) =>
           (response # NoResponse
              <=> HeaderMatches(hdrs.ifNoneMatch, call.etag, TRUE))

\* If-Match: W/"1" against ETag 1 failed with 412
C17_Witness ==
    /\ evaluated
    /\ hdrs.ifMatch = Tags(<<Weak(1)>>)
    /\ call.etag = 1
    /\ response.status = 412

\* --------------------------------------------- claims about the parser
parsed == pc = "parsed"
\* the expression has no end operation: nothing, or only transformations,
\* follows the path
NoOperatorToken(ref) ==
    \A j \in 1..Len(ref.parts) : ref.parts[j] \in {"len", "lc"}
ResolvablePaths ==
    { <<"status">>, <<"price">>, <<"items">>, <<"accountRef">>,
      <<"accountRef", "lastName">> }

\* C20: without an end operation, under the filter operations a scalar path
\* gets eq (ne with '!') when there is a value and !empty (empty with '!')
\* when there is none, a collection path gets !empty (empty with '!') with
\* or without a value, and a resolvable path alone always parses; under the
\* order operations, which have a default only for the plain expression,
\* every other combination fails with a syntax error.
C20_DefaultOperation ==
    (parsed /\ NoOperatorToken(propRef.ref)) =>
      IF propRef.opsMapping = "FILTER"
        THEN /\ pred.error = "" =>
                  pred.spec.op =
                    IF pred.propDesc.scalar /\ propRef.hasValue
                      THEN (IF propRef.ref.invert THEN "ne" ELSE "eq")
                      ELSE (IF propRef.ref.invert THEN "empty" ELSE "!empty")
             /\ (propRef.ref.path \in ResolvablePaths /\ propRef.ref.parts = <<>>)
                  => pred.error = ""
        ELSE IF \/ propRef.ref.invert
                \/ propRef.hasValue
                \/ propRef.ref.path = <<"items">>
               THEN pred.error # ""
               ELSE pred.error = "" => pred.spec.op = "asc"

\* f$items=<value> was given the !empty test
C20_Witness ==
    /\ parsed
    /\ propRef.opsMapping = "FILTER"
    /\ propRef.ref = PropRef(<<"items">>, <<>>, FALSE)
    /\ propRef.hasValue
    /\ pred.error = ""
    /\ pred.spec.op = "!empty"

\* The references between filter groups a parameter set holds: group g
\* refers to group h by a junction parameter g$:or=h or by a collection test
\* g$items=h.
GroupRefs(uq) ==
    { <<uq[k].group, uq[k].vals[v]>> :
        k \in {j \in 1..Len(uq) :
                 uq[j].junction # "" \/ uq[j].prop.path = <<"items">>},
        v \in {1} }
    \ {<<g, "">> : g \in GroupIds}
RECURSIVE ReachedFrom(_, _, _)
ReachedFrom(S, refs, n) ==
    IF n = 0 THEN S
    ELSE ReachedFrom(S \cup {e[2] : e \in {e2 \in refs : e2[1] \in S}}, refs, n - 1)
\* the groups reached from g by one reference or more
RefersTo(g, uq) ==
    ReachedFrom({e[2] : e \in {e2 \in GroupRefs(uq) : e2[1] = g}},
                GroupRefs(uq), Cardinality(GroupIds))
\* a group that the root group reaches (or the root itself) refers to itself
CycleReached(uq) ==
    \E g \in {"f"} \cup RefersTo("f", uq) : g \in RefersTo(g, uq)
\* parameter sets on which nothing but a circular reference can fail:
\* junctions and collection tests only, no empty group id in a junction
OnlyReferences(uq) ==
    \A k \in 1..Len(uq) :
        IF uq[k].junction # "" THEN uq[k].vals[1] # ""
                               ELSE uq[k].prop.path = <<"items">>
Circular == "Circular filter group reference."

\* C18: the parse fails with 'Circular filter group reference' only when a
\* group the root reaches refers, directly or through other groups, by
\* junctions or collection sub-filters, to itself; it always fails when
\* there is such a group, and with that error when nothing else is wrong
\* with the parameters; a group referred to twice without a cycle is not
\* reported; the nesting never goes deeper than the number of parameters
\* plus one.
C18_CircularReference ==
    (pc = "parsed" /\ querySpec # <<>>) =>
      /\ querySpec.error = Circular => CycleReached(urlQuery)
      /\ CycleReached(urlQuery) => querySpec.error # ""
      /\ (CycleReached(urlQuery) /\ OnlyReferences(urlQuery))
           => querySpec.error = Circular
      /\ querySpec.depth <= Len(urlQuery) + 1

\* f$:or=a, a$items=b, b$:or=a was refused as circular at the fourth level
C18_Witness ==
    /\ pc = "parsed"
    /\ urlQuery = << Param("f", ":or", NoPropRef, <<"a">>),
                     Param("a", "", PropRef(<<"items">>, <<>>, FALSE), <<"b">>),
                     Param("b", ":or", NoPropRef, <<"a">>) >>
    /\ querySpec.error = Circular
    /\ querySpec.depth = 4

\* All the nodes of a filter specification: the node, its members and the
\* sub-filters of its tests.
RECURSIVE NodesOf(_)
NodesOf(node) ==
    {node}
    \cup UNION {NodesOf(node.members[j]) : j \in 1..Len(node.members)}
    \cup UNION {NodesOf(node.subs[j]) : j \in 1..Len(node.subs)}
\* the parameters of a group that give a member whatever the other groups
\* hold: the tests
TestsOf(g, uq) == {k \in 1..Len(uq) : uq[k].group = g /\ uq[k].junction = ""}

\* C19: a filter specification holds no group without members and no node
\* that is not a group or a test made from a parameter: a group that
\* collected nothing gives no node, it is left out of its parent's members,
\* and a collection test whose nested group is empty has no sub-filter.
C19_NoEmptyGroup ==
    (pc = "parsed" /\ querySpec # <<>> /\ querySpec.error = ""
       /\ "f" \in queryParts) =>
      /\ \A n \in NodesOf(querySpec.group) \ {querySpec.group} :
           n.type \in {"group", "test"}
      /\ \A n \in NodesOf(querySpec.group) :
           /\ n.type = "group" => Len(n.members) > 0
           /\ n.type = "test" =>
                /\ n.spec.op # ""
                /\ Len(n.subs) <= 1
                /\ \A j \in 1..Len(n.subs) : n.subs[j].type = "group"
           /\ n.type = "none" => n = NoNode
      /\ querySpec.group = NoNode => TestsOf("f", urlQuery) = {}
      /\ querySpec.filter = querySpec.group.members

\* f$:or=a and f$items=b with no parameter in the groups a and b: the filter
\* is the one test of items, without a sub-filter
C19_Witness ==
    /\ pc = "parsed"
    /\ urlQuery = << Param("f", ":or", NoPropRef, <<"a">>),
                     Param("f", "", PropRef(<<"items">>, <<>>, FALSE), <<"b">>) >>
    /\ querySpec.error = ""
    /\ Len(querySpec.filter) = 1
    /\ querySpec.filter[1].type = "test"
    /\ querySpec.filter[1].subs = <<>>

\* ------------------------------------------------- reading a parsed filter
queried == pc = "parsed" /\ querySpec # <<>>

\* What the tests of the fetch specification select: eq, ge, le, gt and lt
\* compare the record's property with the bound parameter.
Holds(op, x, v) ==
    CASE op = "eq" -> x = v
      [] op = "ne" -> x # v
      [] op = "ge" -> x >= v
      [] op = "le" -> x <= v
      [] op = "gt" -> x > v
      [] op = "lt" -> x < v
      [] OTHER -> FALSE
\* Order records, by status and price
Records == [status : {"PENDING", "DONE"}, price : {5, 10, 50, 100, 150}]
\* the record passes every test of the root ':and' group
Selected(rec) ==
    \A j \in 1..Len(querySpec.filter) :
      LET test == querySpec.filter[j] IN
        /\ test.type = "test"
        /\ test.param \in DOMAIN querySpec.queryParams
        /\ Holds(test.spec.op, rec[test.spec.expr[1]],
                 querySpec.queryParams[test.param][1])
\* C21 (as the code has it): f$status=PENDING, f$price:min=10 and
\* f$price:max!=100 compile to a filter of three tests that selects the
\* records with status = "PENDING", price >= 10 and price > 100 (max! is the
\* inverse of "less or equal"); three parameters are generated, two of them
\* numeric, bound to 10 and 100.
C21_StatusPriceFilter ==
    (queried /\ urlQuery = StatusPriceRange /\ "f" \in queryParts) =>
      /\ querySpec.error = ""
      /\ Len(querySpec.filter) = 3
      /\ \A rec \in Records :
           Selected(rec) <=> (rec.status = "PENDING" /\ rec.price >= 10
                              /\ rec.price > 100)
      /\ DOMAIN querySpec.queryParams = {"pf0", "pf1", "pf2"}
      /\ querySpec.queryParams["pf0"] = <<"PENDING">>
      /\ querySpec.queryParams["pf1"] = <<10>>
      /\ querySpec.queryParams["pf2"] = <<100>>

C21_Witness ==
    /\ queried
    /\ urlQuery = StatusPriceRange
    /\ querySpec.error = ""
    /\ Len(querySpec.filter) = 3
    /\ querySpec.filter[3].spec = [expr |-> <<"price">>, op |-> "gt"]

\* C21 as stated: the filter selects the records with status = "PENDING",
\* price >= 10 and not price > 100.
C21_AsStated ==
    (queried /\ urlQuery = StatusPriceRange /\ "f" \in queryParts) =>
      /\ querySpec.error = ""
      /\ \A rec \in Records :
           Selected(rec) <=> (rec.status = "PENDING" /\ rec.price >= 10
                              /\ ~(rec.price > 100))

\* f$accountRef.lastName:len:min=<value>
LastNameLength(valExpr) ==
    << Param("f", "", PropRef(<<"accountRef", "lastName">>, <<"len", "min">>, FALSE),
             <<valExpr>>) >>

\* C22: f$accountRef.lastName:len:min=5 compiles to the one test
\* 'length(accountRef.lastName) => ge' bound to the number 5; with an operand
\* that is not a number the parse fails with the invalid value error.
C22_LengthAtLeast ==
    (queried /\ "f" \in queryParts) =>
      \A valExpr \in LeafValues \ {""} :
        urlQuery = LastNameLength(valExpr) =>
          IF NumberOf(valExpr) # NaN
            THEN /\ querySpec.error = ""
                 /\ querySpec.filter =
                      << Test([expr |-> <<"length(", "accountRef", "lastName", ")">>,
                               op |-> "ge"], NaN, "pf0", <<>>) >>
                 /\ querySpec.queryParams = ("pf0" :> <<NumberOf(valExpr)>>)
            ELSE /\ querySpec.error = "Invalid test value, expected a number."
                 /\ querySpec.filter = <<>>
                 /\ querySpec.queryParams = <<>>

C22_Witness ==
    /\ queried
    /\ urlQuery = LastNameLength("5")
    /\ querySpec.error = ""
    /\ querySpec.queryParams["pf0"] = <<5>>

\* the operand abc is refused
C22_WitnessInvalid ==
    /\ queried
    /\ urlQuery = LastNameLength("abc")
    /\ querySpec.error = "Invalid test value, expected a number."

\* the parts after the path that are transformations, with their arguments
Transformations == {"len", "lc", "sub", "lpad"}
Transformed(ref) ==
    \E j \in 1..Len(ref.parts) : ref.parts[j] \in Transformations

\* C23: a predicate carries a reference prefix only when the last segment of
\* its path is a reference property and no transformation was applied; the
\* prefix is then '<TargetType>#' and the value type the one of the target's
\* id.
C23_PrefixOnlyForReference ==
    (parsed /\ pred # <<>> /\ pred.error = "") =>
      /\ pred.refPrefix # NoRefPrefix =>
           /\ pred.propDesc.ref
           /\ ~Transformed(propRef.ref)
           /\ pred.refPrefix = RefPrefix(pred.propDesc.nestedProperties)
      /\ (pred.propDesc.ref /\ ~Transformed(propRef.ref)) =>
           /\ pred.refPrefix = RefPrefix(pred.propDesc.nestedProperties)
           /\ pred.valueType \in {"number", "$pattern"}

\* the prefix of accountRef is kept for accountRef.lastName
C23_PrefixKept ==
    /\ parsed
    /\ pred # <<>>
    /\ pred.error = ""
    /\ propRef.ref.path = <<"accountRef", "lastName">>
    /\ pred.refPrefix = RefPrefix("Account")
    /\ pred.valueType = "string"

\* The property a path walks to in the record types library, segment by
\* segment: "missing" when a segment is not a property of the container
\* reached, "collection" when a segment follows a collection.
RECURSIVE Walk(_, _, _)
Walk(container, names, afterCollection) ==
    IF names = <<>> THEN "end"
    ELSE IF container = NoContainer \/ Head(names) \notin DOMAIN Props(container)
      THEN "missing"
    ELSE IF afterCollection THEN "collection"
    ELSE LET desc == Props(container)[Head(names)]
         IN  IF Len(names) = 1
               THEN (IF desc.scalarValueType = "object" /\ desc.scalar
                       THEN "object" ELSE "fine")
               ELSE Walk(desc.nestedProperties, Tail(names), ~desc.scalar)

\* C24: parseQueryPropRef fails with a syntax error when a segment of the
\* path is not a property of the container reached, when a segment that is
\* not the last one is a collection, and when the last segment is a nested
\* object that is not a collection.
C24_PathErrors ==
    (parsed /\ pred # <<>>) =>
      LET walk == Walk("Order", propRef.ref.path, FALSE) IN
        /\ walk = "missing" => pred.error = "invalid property path."
        /\ walk = "collection" => pred.error = "non-scalar intermediate."
        /\ walk = "object" =>
             pred.error = "nested object used for non-collection test."
        /\ pred.error \in {"invalid property path.", "non-scalar intermediate.",
                           "nested object used for non-collection test."}
             => walk # "fine"

\* items.name was refused: items is a collection
C24_Witness ==
    /\ parsed
    /\ pred # <<>>
    /\ propRef.ref.path = <<"items", "name">>
    /\ pred.error = "non-scalar intermediate."

\* address was refused: a nested object
C24_WitnessObject ==
    /\ parsed
    /\ pred # <<>>
    /\ propRef.ref.path = <<"address">>
    /\ pred.error = "nested object used for non-collection test."

C25_WitnessCount ==
    /\ parsed
    /\ pred # <<>>
    /\ propRef.ref.path = <<"items">>
    /\ propRef.ref.parts = <<"count">>
    /\ pred.spec.op = "count"

\* the error of a transformation given an input that is not a string, and of
\* one given less than two arguments
ExpectsString(t) == "transformation \"" \o t \o "\" expects string input."
ExpectsTwo(t) == "transformation \"" \o t \o "\" expects two arguments."

\* C26: on a string, len gives a number and lc, sub and lpad give a string;
\* a transformation of anything but a string fails (a number property, or
\* the result of len); sub and lpad fail unless two more parts follow them;
\* a part that is neither the last one nor a transformation fails as an
\* unknown transformation.
C26_TransformationTypes ==
    (parsed /\ pred # <<>> /\ propRef.ref.path \in {<<"status">>, <<"price">>}
       /\ propRef.ref.parts # <<>>) =>
      LET parts == propRef.ref.parts
          first == parts[1]
          onString == propRef.ref.path = <<"status">>
          plain == propRef.opsMapping = "ORDER" /\ ~propRef.ref.invert
                     /\ ~propRef.hasValue
      IN
        /\ (onString /\ plain /\ parts = <<"len">>) =>
             pred.error = "" /\ pred.valueType = "number"
        /\ (onString /\ plain /\ parts = <<"lc">>) =>
             pred.error = "" /\ pred.valueType = "string"
        /\ (onString /\ plain /\ parts \in {<<"sub", "2", "">>, <<"lpad", "2", "">>}) =>
             pred.error = "" /\ pred.valueType = "string"
        /\ (~onString /\ first \in Transformations) =>
             pred.error = ExpectsString(first)
        /\ (onString /\ first = "len" /\ Len(parts) > 1
              /\ parts[2] \in Transformations) =>
             pred.error = ExpectsString(parts[2])
        /\ (onString /\ first \in {"sub", "lpad"} /\ Len(parts) < 3) =>
             pred.error = ExpectsTwo(first)
        /\ (onString /\ first = "lc" /\ Len(parts) > 1
              /\ parts[2] \in {"sub", "lpad"} /\ Len(parts) < 4) =>
             pred.error = ExpectsTwo(parts[2])
        /\ (first \notin Transformations /\ Len(parts) > 1) =>
             pred.error = "unknown transformation."
        /\ (onString /\ first \in {"len", "lc"} /\ Len(parts) > 2
              /\ parts[2] \notin Transformations) =>
             pred.error = "unknown transformation."

\* status:len:lc was refused: lc was given the number len returns
C26_Witness ==
    /\ parsed
    /\ pred # <<>>
    /\ propRef.ref.path = <<"status">>
    /\ propRef.ref.parts = <<"len", "lc">>
    /\ pred.error = ExpectsString("lc")

\* status:sub:2 was refused, status:sub:2: (to the end of the string) was not
C26_WitnessArguments ==
    /\ parsed
    /\ pred # <<>>
    /\ propRef.ref.path = <<"status">>
    /\ \/ propRef.ref.parts = <<"sub", "2">> /\ pred.error = ExpectsTwo("sub")
       \/ propRef.ref.parts = <<"sub", "2", "">> /\ pred.error = ""

\* the expression names its operation: its last part is not a transformation
HasOperator(ref) ==
    /\ ref.parts # <<>>
    /\ ref.parts[Len(ref.parts)] \notin Transformations \cup {""}
\* every parameter is a test of the root group
OnlyRootTests(uq) ==
    \A k \in 1..Len(uq) : uq[k].group = "f" /\ uq[k].junction = ""
RequiresValue == "filter requires a value."
StatusIsAbc == Param("f", "", PropRef(<<"status">>, <<>>, FALSE), <<"abc">>)

C27_WitnessDefault ==
    /\ queried
    /\ urlQuery = << Param("f", "", PropRef(<<"status">>, <<>>, TRUE), <<"">>) >>
    /\ querySpec.error = ""
    /\ querySpec.filter[1].spec.op = "empty"

\* The parameter names the tests of a filter specification are bound to, one
\* for every test that has a parameter, in the order of the specification.
RECURSIVE ParamsOf(_)
RECURSIVE ParamsOfAll(_)
ParamsOfAll(nodes) ==
    IF nodes = <<>> THEN <<>>
    ELSE ParamsOf(Head(nodes)) \o ParamsOfAll(Tail(nodes))
ParamsOf(node) ==
    (IF node.type = "test" /\ node.param # "" THEN <<node.param>> ELSE <<>>)
    \o ParamsOfAll(node.members) \o ParamsOfAll(node.subs)

\* C28: within one parseSearchQuery call no two tests are bound to the same
\* generated parameter name 'p<groupId><sequence>', so that every name holds
\* the value of its own test.
C28_FreshNames ==
    (queried /\ querySpec.error = "" /\ "f" \in queryParts) =>
      LET names == ParamsOf(querySpec.group) IN
        \A j, k \in 1..Len(names) : j # k => names[j] # names[k]

\* the eleventh test of the group f and the first test of the group f1 are
\* both bound to pf10, which holds the value of the latter
C28_SharedName ==
    /\ queried
    /\ urlQuery = ManyTests
    /\ querySpec.error = ""
    /\ querySpec.filter[MaxSequence + 1].param = "pf10"
    /\ querySpec.filter[MaxSequence + 2].members[1].param = "pf10"
    /\ querySpec.queryParams["pf10"] = <<"b">>

MoreThanOneRange == "More than one range specification."
\* the errors of the parts parsed before the range
EarlierErrors == {"filter requires a value.", "unknown operation."}

\* C29: when the range part is parsed (queryParts names r), a query in
\* which r is given more than once fails, whatever the order of its values:
\* with the 'More than one range specification' error, unless the filter or
\* the order part, parsed before it, has already failed.
C29_RepeatedRange ==
    (queried /\ "r" \in queryParts /\ IsArray(Named(urlQuery, "r"))) =>
      /\ querySpec.error # ""
      /\ querySpec.has = {}
      /\ querySpec.error \in {MoreThanOneRange} \cup EarlierErrors
      /\ querySpec.error = "filter requires a value." => "f" \in queryParts
      /\ querySpec.error = "unknown operation." => "o" \in queryParts
      /\ (queryParts = {"r"} \/ Len(urlQuery) = 1) =>
           querySpec.error = MoreThanOneRange

\* r=5,5&r=0,20 was refused
C29_Witness ==
    /\ queried
    /\ queryParts = {"p", "f", "o", "r"}
    /\ urlQuery = << Plain("r", <<"5,5", "0,20">>) >>
    /\ querySpec.error = MoreThanOneRange

\* C30: a query specification that contains a range has a range of exactly
\* two integers, the offset and the limit.
C30_RangeOfTwoIntegers ==
    (queried /\ querySpec.error = "" /\ "r" \in querySpec.has) =>
      /\ Len(querySpec.range) = 2
      /\ \A j \in 1..Len(querySpec.range) : querySpec.range[j] # NaN

\* r=5 gave the range [5], r=a,b the range [NaN, NaN]
C30_RangeOfOne ==
    /\ queried
    /\ urlQuery = << Plain("r", <<"5">>) >>
    /\ querySpec.error = ""
    /\ querySpec.range = <<5>>
C30_RangeOfNaN ==
    /\ queried
    /\ urlQuery = << Plain("r", <<"a,b">>) >>
    /\ querySpec.error = ""
    /\ querySpec.range = <<NaN, NaN>>

\* The query without the parameters of the parts that queryParts does not
\* name: p, o, r, and the filter parameters (every name with a '$').
RECURSIVE WithoutDisabled(_, _)
WithoutDisabled(uq, parts) ==
    IF uq = <<>> THEN <<>>
    ELSE LET param == Head(uq)
             part == IF param.group = "" THEN param.junction ELSE "f"
         IN  (IF part \in parts THEN <<param>> ELSE <<>>)
             \o WithoutDisabled(Tail(uq), parts)

\* C31: parseSearchQuery parses only the parts queryParts names: the query
\* specification, or the error, is the one of the query without the
\* parameters of the other parts, which add no element to the specification
\* and cause no error, malformed or repeated as they may be.
C31_OnlyEnabledParts ==
    queried =>
      /\ querySpec = parseSearchQuery("Order", WithoutDisabled(urlQuery, queryParts),
                                      queryParts)
      /\ querySpec.has \subseteq queryParts
      /\ "p" \notin queryParts => querySpec.props = <<>>
      /\ "f" \notin queryParts =>
           querySpec.filter = <<>> /\ querySpec.queryParams = <<>>
      /\ "o" \notin queryParts => querySpec.order = <<>>
      /\ "r" \notin queryParts => querySpec.range = <<>>
      /\ querySpec.error = MoreThanOneRange => "r" \in queryParts
      /\ querySpec.error = "unknown operation." => "o" \in queryParts
      /\ querySpec.error \notin {"", MoreThanOneRange, "unknown operation."}
           => "f" \in queryParts
      /\ WithoutDisabled(urlQuery, queryParts) = <<>> =>
           querySpec.error = "" /\ querySpec.has \subseteq {"f"}

\* with 'f', an order by price:min and a range given twice were ignored
C31_Witness ==
    /\ queried
    /\ queryParts = {"f"}
    /\ urlQuery = << Plain("p", <<"status", "price">>),
                     Param("f", "", PropRef(<<"status">>, <<>>, FALSE), <<"a">>),
                     Plain("o", <<"price:min">>),
                     Plain("r", <<"5,5", "0,20">>) >>
    /\ querySpec.error = ""
    /\ querySpec.has = {"f"}
    /\ Len(querySpec.filter) = 1

\* --------------------------------------------- claims about the ETag
versioned == pc = "versioned"
\* the string is, in double quotes, the API version, the actor id and the
\* version of the call, separated by colons
Quoted(str, c) ==
    str = "\"" \o c.apiVersion \o ":" \o actorId(c) \o ":" \o ToString(c.version)
            \o "\""

\* C32: an ETag is a double-quoted string made of the API version, the
\* actor id ('*' without an actor) and the version value, and two calls that
\* differ in their API version or in their actor never obtain the same ETag.
C32_ETagPerActorAndVersion ==
    versioned =>
      /\ \A j \in 1..2 : Quoted(versionInfo[j].etag, versionCalls[j])
      /\ (\/ versionCalls[1].apiVersion # versionCalls[2].apiVersion
          \/ versionCalls[1].actor # versionCalls[2].actor)
           => versionInfo[1].etag # versionInfo[2].etag

\* an actor whose id is '*' and a call without an actor obtained the same
\* ETag for the same record
C32_SharedETag ==
    /\ versioned
    /\ versionCalls[1] = VersionCall("1", NoActor, 1)
    /\ versionCalls[2] = VersionCall("1", <<"*">>, 1)
    /\ versionInfo[1].etag = "\"1:*:1\""
    /\ versionInfo[2].etag = "\"1:*:1\""
\* so did actor 7:7 under the API version 1 and actor 7 under 1:7
C32_SharedETagAcrossVersions ==
    /\ versioned
    /\ versionCalls[1] = VersionCall("1", <<"7:7">>, 1)
    /\ versionCalls[2] = VersionCall("1:7", <<"7">>, 1)
    /\ versionInfo[1].etag = versionInfo[2].etag


\* --------------------------------- claims about the handler methods' hooks
replied == pc = "replied"
\* the number of phases invoked up to position j of the trace
PhasesUpTo(j) == Cardinality({k \in 1..j : trace[k].op = "phase"})
\* positions of the trace where a hook called makeComplete() and returned:
\* a 'prepare' hook, or a 'before' or 'after' hook run as a phase
CompletedByPrepare ==
    {j \in 1..Len(trace) : trace[j].op = "prepare" /\ trace[j].e = "complete"}
CompletedInTransaction ==
    {j \in 1..Len(trace) :
       /\ trace[j].op = "phase"
       /\ phases[trace[j].i] = "hook"
       /\ kinds[PhasesUpTo(j)].kind = "complete"}
\* what the hook called at position j returned
Returned(j) ==
    IF trace[j].op = "prepare" THEN trace[j].arg ELSE kinds[PhasesUpTo(j)].val
\* steps of the handler's logic: hooks, steps of its own, phases
LogicAfter(j) ==
    {k \in (j + 1)..Len(trace) :
       trace[k].op \in {"prepare", "build", "phase", "complete"}}
\* the data source and the transaction did what they were asked to
NoDatabaseFailure ==
    outcome.val \notin {ErrConn, ErrNewTx, ErrStart, ErrCommit, ErrRollback}
Cancelled(j) ==
    /\ LogicAfter(j) = {}
    /\ Count("rollback") = 0
    /\ Count("start") > 0 => txState = "committed"
    /\ reply.state = "resolved"
    /\ reply.val = Returned(j)

\* C33: in a call that has been answered, a hook that called makeComplete()
\* and returned is the last step of the handler's logic (no later hook, step
\* or phase runs), the transaction, if one was started, is committed and
\* never rolled back, and the handler's promise is fulfilled with what the
\* hook returned; this for 'prepare', 'before' and 'after' hooks alike.
C33_MakeCompleteCancelsTheRest ==
    (replied /\ NoDatabaseFailure) =>
        \A j \in CompletedByPrepare \cup CompletedInTransaction : Cancelled(j)

\* C33 for the hooks that run inside the transaction only
C33_InTransaction ==
    (replied /\ NoDatabaseFailure /\ CompletedByPrepare = {}) =>
        \A j \in CompletedInTransaction : Cancelled(j)

\* a 'before' or 'after' hook has called makeComplete() and the call is answered
C33_WitnessInTransaction ==
    replied /\ NoDatabaseFailure /\ CompletedInTransaction # {}

\* a 'prepare' hook has called makeComplete() and the call is answered
C33_WitnessPrepare ==
    replied /\ NoDatabaseFailure /\ CompletedByPrepare # {}


\* the call's transaction was started and has ended, one way or another
TransactionFinished == txState \in {"committed", "rolledBack", "failed"}

C34_WitnessCommitted ==
    /\ replied /\ handler.hooks /\ txState = "committed"
    /\ outcome.state = "resolved" /\ Count("complete") = 1

\* the hook was skipped: the context was complete when the commit resolved
C34_WitnessSkipped ==
    /\ replied /\ handler.hooks /\ txState = "committed" /\ complete
    /\ Count("complete") = 0


\* ------------------------------------------------------------------- C35
\* the listeners of the event the run fired
Fired == listeners[IF outcome.state = "resolved" THEN "commit" ELSE "rollback"]
SomeListenerThrows == \E j \in 1..Len(Fired) : Fired[j] = "throw"

\* C35: when a listener of the event that is fired throws, every listener
\* of the event is still called, once and in registration order (the ones
\* registered after the throwing one included), and the run is settled as
\* it would be without listeners: fulfilled with the result of the last
\* phase, or rejected with the error of the chain (the rollback's error
\* when the rollback failed).
C35_ThrowingListenerIgnored ==
    (settled /\ txCreated /\ SomeListenerThrows) =>
        /\ Count("listener") = Len(Fired)
        /\ \A j \in Positions("emit"), k \in Positions("listener") :
              /\ k > j
              /\ trace[k].i = k - j
              /\ trace[k].arg = (IF Fired[k - j] = "throw" THEN 1 ELSE 0)
        /\ outcome.state = "resolved" => outcome.val = result
        /\ outcome.state = "rejected" =>
              outcome.val = (IF Count("rollback") = 1 /\ txState = "failed"
                               THEN ErrRollback ELSE err)

\* the first of two listeners of the fired event threw and the second one
\* was called all the same
C35_Witness ==
    /\ settled /\ txCreated
    /\ Len(Fired) = 2 /\ Fired[1] = "throw"
    /\ Count("listener") = 2


\* ------------------------------------------------------------------- C36
\* what releaseConnection was given besides the connection
ReleasedWith == {trace[j].arg : j \in Positions("release")}

\* C36 as stated: a connection released on a run that failed is released
\* with the value the run is rejected with, whatever that value is.
C36_AsStated ==
    (settled /\ outcome.state = "rejected" /\ released = 1) =>
        ReleasedWith = {outcome.val}

\* C36: a connection released on a run that failed is released with the
\* value the run is rejected with when that value is an Error instance, and
\* with no error at all when it is anything else (a service response).
C36_ErrorPassedOnRelease ==
    (settled /\ outcome.state = "rejected" /\ released = 1) =>
        ReleasedWith = {IF IsError(outcome.val) THEN outcome.val ELSE Undefined}

\* a run rejected with an Error instance released the connection with it
C36_Witness ==
    /\ settled /\ outcome.state = "rejected" /\ released = 1
    /\ IsError(outcome.val)
    /\ ReleasedWith = {outcome.val}

\* a run rejected with a service response released the connection without
\* an error
C36_WitnessResponse ==
    /\ settled /\ outcome.state = "rejected" /\ released = 1
    /\ outcome.val = Resp404
    /\ ReleasedWith = {Undefined}


\* ------------------------------------------------------------------- C37
\* positions of the trace where the phase of PATCH or DELETE that evaluates
\* the preconditions was invoked and yielded a 304 or a 412
PreconditionsFailedAt ==
    {j \in Positions("phase") :
       /\ phases[trace[j].i] \in {"precondPATCH", "precondSync"}
       /\ kinds[PhasesUpTo(j)].val \in {Resp304, Resp412}}

\* C37: in an individual PATCH or DELETE, once the evaluation of the
\* preconditions has yielded a 304 or a 412 no phase is invoked any more in
\* that call: neither the update or delete DBO nor a 'before' or 'after'
\* hook.
C37_NothingAfterFailedPreconditions ==
    handler.verb \in {"PATCH", "DELETE"} =>
        \A j \in PreconditionsFailedAt :
            \A k \in Positions("phase") : k <= j

\* a PATCH with hooks was rejected with the 412 of its preconditions
C37_Witness ==
    /\ handler.verb = "PATCH" /\ handler.hooks
    /\ PreconditionsFailedAt # {}
    /\ settled /\ outcome = [state |-> "rejected", val |-> Resp412]

\* a DELETE with hooks was answered with the 412 of its preconditions
C37_WitnessDelete ==
    /\ handler.verb = "DELETE" /\ handler.hooks
    /\ PreconditionsFailedAt # {}
    /\ settled /\ outcome = [state |-> "resolved", val |-> Resp412]


\* ------------------------------------------------------------------- C38
\* positions of the trace where the parent record fetch phase of a POST
\* was invoked, found no parent record and committed the transaction
ParentNotFoundAt ==
    {j \in Positions("phase") :
       /\ phases[trace[j].i] = "parentFetch"
       /\ kinds[PhasesUpTo(j)].kind = "commitReject"}
\* the commit made by the phase resolved, so that the phase rejected with
\* the 404
PhaseCommitted == err = Resp404

\* C38: in a POST on a dependent resource whose parent record is not found,
\* once the phase's own commit has resolved and the call is settled: no
\* phase was invoked after the parent record fetch (the insert DBO never
\* ran), the only commit is the phase's, no rollback was attempted, the
\* connection was released exactly once and the run is rejected with the
\* 404.
C38_ParentNotFound ==
    (handler.verb = "POST" /\ settled /\ ParentNotFoundAt # {}
       /\ PhaseCommitted) =>
        /\ \A j \in ParentNotFoundAt : \A k \in Positions("phase") : k <= j
        /\ Count("commit") = 1
        /\ OwnCommits = {}
        /\ Count("rollback") = 0
        /\ txState = "committed"
        /\ released = 1
        /\ outcome = [state |-> "rejected", val |-> Resp404]

\* a POST with hooks and a collections monitor ended that way
C38_Witness ==
    /\ handler.verb = "POST" /\ handler.opt /\ handler.hooks
    /\ settled /\ ParentNotFoundAt # {} /\ PhaseCommitted
    /\ released = 1
    /\ outcome.val = Resp404


\* ------------------------------------------------------------------- C39
\* a bulk PATCH that has an entity and whose query parsed without an error
\* into a filter with no members
BulkPatchNoFilter ==
    /\ handler.verb = "BULKPATCH"
    /\ call.entity
    /\ pc # "called"
    /\ querySpec.error = ""
    /\ Len(querySpec.filter) = 0

\* C39: a bulk PATCH whose parsed query has a filter with no members is
\* answered at once with the 400 'Explicit filter is required.': no step
\* of the handler runs, no connection is asked for, no transaction is
\* started and no phase (the update DBO) is invoked.
C39_ExplicitFilterRequired ==
    BulkPatchNoFilter =>
        /\ pc = "replied"
        /\ reply = Reply("resolved", Resp400_9, 0)
        /\ trace = <<>>
        /\ phases = <<>>
        /\ acquired = 0
        /\ txState = "none"

\* the query names an empty filter group
C39_Witness ==
    /\ BulkPatchNoFilter
    /\ urlQuery = <<Param("f", ":or", NoPropRef, <<"a">>)>>
    /\ reply.val = Resp400_9

\* the query has no filter parameter at all
C39_WitnessNoParameter ==
    BulkPatchNoFilter /\ urlQuery = <<Plain("p", <<"status">>)>> /\ replied

\* a bulk PATCH with a filter runs its update DBO
C39_WitnessFilter ==
    /\ handler.verb = "BULKPATCH" /\ replied /\ call.entity
    /\ Len(querySpec.filter) = 1
    /\ txState = "committed"


\* ------------------------------------------------------------------- C40
\* nodes of the filter that were built by a recursive descent
Descents(nodes) ==
    {j \in 1..Len(nodes) : nodes[j].type = "group" \/ nodes[j].subs # <<>>}

\* C40: once the query is parsed, every call of parseFilterParams that
\* returned normally has left in the shared set of parent group ids exactly
\* what it found there, and when the parser returns a query specification
\* the set is empty again, as the handler passed it.
C40_ParentGroupIdsRestored ==
    (parsed /\ "f" \in queryParts) =>
        /\ querySpec.restored
        /\ querySpec.error = "" => querySpec.parentGroupIds = {}

\* the root group has two members built by a recursive descent, one after
\* the other, and the set is empty at the end
C40_Witness ==
    /\ parsed /\ "f" \in queryParts
    /\ querySpec.error = ""
    /\ Cardinality(Descents(querySpec.filter)) = 2
    /\ querySpec.parentGroupIds = {}

\* a group nested in a nested group
C40_WitnessDeep ==
    /\ parsed /\ "f" \in queryParts
    /\ querySpec.error = ""
    /\ querySpec.depth = 3
    /\ querySpec.restored

====
